---- MODULE Spec2Model ----
(***************************************************************************)
(* Verification model of the React / WordPress headless storefront.       *)
(*                                                                         *)
(* The repository has no shared engine: each part below is one of its     *)
(* page components or scripts, with its own specification:                *)
(*   SpecList  - product list pages: ordering, cursor paging              *)
(*   SpecAuth  - localStorage token, Apollo auth link, LoginForm, Header   *)
(*   SpecAdd   - add to cart on list and detail pages, Header cart badge   *)
(*   SpecBadge - Header's cart-updated listener                            *)
(*   SpecCart  - Cart page: quantity and removal handlers                  *)
(*   SpecPrice - price normalisation of product nodes                      *)
(*   SpecCheckout - Checkout's placeOrder, OrderConfirmation's order query *)
(*   SpecBoot  - docker-entrypoint-custom.sh                               *)
(*   SpecReset - Headless Reset Link plugin: the reset URL                 *)
(***************************************************************************)
EXTENDS Integers, Sequences, FiniteSets, TLC

(***************************************************************************)
(* JavaScript values                                                       *)
(***************************************************************************)
Null == "null"
Undefined == "undefined"

\* JS truthiness of the values the model uses (strings, null, undefined)
Falsy(x) == x = Null \/ x = Undefined \/ x = ""

\* x || null
OrNull(x) == IF Falsy(x) THEN Null ELSE x

Max(a, b) == IF a >= b THEN a ELSE b

\* arr[i] of a JS array (0-based); a missing index reads undefined
ArrayGet(arr, i) == IF i >= 0 /\ i < Len(arr) THEN arr[i + 1] ELSE Undefined

\* copy = [...arr]; copy[i] = v  (0-based; writing past the end leaves holes)
ArraySet(arr, i, v) ==
  [j \in 1..Max(Len(arr), i + 1) |->
     IF j = i + 1 THEN v
     ELSE IF j <= Len(arr) THEN arr[j] ELSE Undefined]

(***************************************************************************)
(* Bounds                                                                  *)
(***************************************************************************)
\* goNext is not pressed beyond this page number
MaxPage == 3

(***************************************************************************)
(* Product list pages                                                      *)
(***************************************************************************)
\* pages that keep a cursor stack, by the shape of their mapOrdering / options
StackPages == {"Smartphones", "Mkopa", "Storage", "NewIphones", "BudgetSmartphoneDeals"}

\* the <option value=...> entries of each page's ordering select
OrderingOptions(c) ==
  CASE c \in {"Smartphones", "BudgetSmartphoneDeals"} ->
         {"", "created_at", "-created_at", "price_min_ksh", "-price_min_ksh", "name", "-name"}
    [] c = "Mkopa" ->
         {"", "created_at", "-created_at", "price_min_ksh", "-price_min_ksh",
          "weekly_ksh", "-weekly_ksh", "deposit_ksh", "-deposit_ksh", "name", "-name"}
    [] c = "Storage" -> {"latest", "price_low", "price_high"}
    [] c = "NewIphones" -> {"", "-created_at", "new_price_ksh", "-new_price_ksh", "name"}
    [] c = "LatestOffers" -> {"-created_at", "created_at"}

\* useState initial value of `ordering`
InitialOrdering(c) ==
  CASE c = "Storage" -> "latest"
    [] c = "LatestOffers" -> "-created_at"
    [] OTHER -> ""

\* mapOrdering of Smartphones, Audio, Television, Mkopa, DialPhones, Reallaptops,
\* MobileAccessories and BudgetSmartphoneDeals (the same switch in each)
mapOrdering_Swapped(ordering) ==
  CASE ordering = "created_at" -> [field |-> "DATE", order |-> "DESC"]
    [] ordering = "-created_at" -> [field |-> "DATE", order |-> "ASC"]
    [] ordering = "name" -> [field |-> "TITLE", order |-> "DESC"]
    [] ordering = "-name" -> [field |-> "TITLE", order |-> "ASC"]
    [] ordering = "price_min_ksh" -> [field |-> "PRICE", order |-> "DESC"]
    [] ordering = "-price_min_ksh" -> [field |-> "PRICE", order |-> "ASC"]
    [] OTHER -> [field |-> "DATE", order |-> "DESC"]

mapOrdering(ordering) ==
  CASE ordering = "created_at" -> [field |-> "DATE", order |-> "ASC"]
    [] ordering = "-created_at" -> [field |-> "DATE", order |-> "DESC"]
    [] ordering = "name" -> [field |-> "TITLE", order |-> "ASC"]
    [] ordering = "-name" -> [field |-> "TITLE", order |-> "DESC"]
    [] ordering = "price_min_ksh" -> [field |-> "PRICE", order |-> "ASC"]
    [] ordering = "-price_min_ksh" -> [field |-> "PRICE", order |-> "DESC"]
    [] OTHER -> [field |-> "DATE", order |-> "DESC"]

\* mapOrdering of Storage
Storage_mapOrdering(ordering) ==
  CASE ordering = "price_low" -> [field |-> "PRICE", order |-> "ASC"]
    [] ordering = "price_high" -> [field |-> "PRICE", order |-> "DESC"]
    [] OTHER -> [field |-> "DATE", order |-> "DESC"]

\* mapOrdering of NewIphones
NewIphones_mapOrdering(ordering) ==
  CASE ordering = "-created_at" -> [field |-> "DATE", order |-> "DESC"]
    [] ordering = "new_price_ksh" -> [field |-> "PRICE", order |-> "ASC"]
    [] ordering = "-new_price_ksh" -> [field |-> "PRICE", order |-> "DESC"]
    [] ordering = "name" -> [field |-> "TITLE", order |-> "ASC"]
    [] OTHER -> [field |-> "DATE", order |-> "DESC"]

\* LatestOffers: const orderEnum = ordering === "-created_at" ? "DESC" : "ASC"
\* (its query has no orderby field variable: the field is fixed to DATE)
LatestOffers_orderEnum(ordering) ==
  [field |-> "DATE", order |-> IF ordering = "-created_at" THEN "DESC" ELSE "ASC"]

\* the {orderbyField, order} a page component computes from its `ordering` state
OrderVars(c, ordering) ==
  CASE c = "Storage" -> Storage_mapOrdering(ordering)
    [] c = "NewIphones" -> NewIphones_mapOrdering(ordering)
    [] c = "LatestOffers" -> LatestOffers_orderEnum(ordering)
    [] OTHER -> mapOrdering(ordering)

VARIABLES
  component,       \* which list page is mounted
  page,            \* useState(1)
  endCursorStack,  \* useState([null]); index = page - 1 (cursor-stack pages)
  after,           \* useState(null) (LatestOffers only)
  search,          \* useState("")
  ordering,        \* useState(...)
  filter,          \* brand / badge filter select
  data,            \* useQuery result for the current variables
  lastReqs,        \* the products requests issued by the last handler
  lastOp,          \* history: the last handler that ran
  prevPage,        \* history: `page` before the last handler
  prevStreak,      \* history: `streak` before the last handler
  streak,          \* history: number of goNext presses since page 1, -1 once broken
  origAfter        \* history: the `after` that goNext requested page k with

listVars == <<component, page, endCursorStack, after, search, ordering, filter,
              data, lastReqs, lastOp, prevPage, prevStreak, streak, origAfter>>

(***************************************************************************)
(* Shared Apollo client, LoginForm and Header (auth part)                  *)
(***************************************************************************)
VARIABLES
  wpjwt,           \* localStorage["wpjwt"]: the stored string
  isAuthed,        \* Header: useState(Boolean(getAccessToken()))
  user,            \* Header: useState(getUser())
  cartCount,       \* Header: useState(0), the cart badge
  loginPc,         \* LoginForm.handleSubmit: where the handler stands
  payload,         \* LoginForm.handleSubmit: data?.login of the answered mutation
  storageEvent,    \* a `storage` event queued for this tab by another tab's write
  lastRequest,     \* history: the last GraphQL request the Apollo client sent
  authOp           \* history: the last auth step that ran

authVars == <<wpjwt, isAuthed, user, cartCount, loginPc, payload, storageEvent,
              lastRequest, authOp>>

(***************************************************************************)
(* Add to cart on a list or detail page                                    *)
(***************************************************************************)
VARIABLES
  addingMap,       \* useState({}): { [id]: true } while the item is being added
  awaiting,        \* the items whose addToCart mutation is in flight
  calls,           \* history: per item, what its latest handleBuyNow call has done
  lastAdd,         \* history: the last handleBuyNow step that ran
  cartEvent        \* the last cart-updated event Header handled; its refetch, if any

addVars == <<addingMap, awaiting, calls, lastAdd, cartEvent>>

(***************************************************************************)
(* Cart page                                                               *)
(***************************************************************************)
VARIABLES
  cartServer,      \* the server's cart: quantity per line key (0: no such line)
  cartData,        \* data.cart.contents.nodes as last delivered: quantity per key
  cartLoading,     \* GET_CART has not delivered yet (loading && !data)
  cartError,       \* useQuery(GET_CART).error is set
  busyKeys,        \* busyKeys[key]
  ops,             \* the running onInc / onDec / onRemove calls and what each did
  lastCart         \* history: the last step a Cart handler took

cartVars == <<cartServer, cartData, cartLoading, cartError, busyKeys, ops, lastCart>>

(***************************************************************************)
(* Price normalisation of a product node                                   *)
(***************************************************************************)
VARIABLES
  priceNode,       \* the product node being normalised
  priceView        \* what each page makes of it

priceVars == <<priceNode, priceView>>

(***************************************************************************)
(* docker-entrypoint-custom.sh                                             *)
(***************************************************************************)
VARIABLES
  bootPc,          \* the command the script is at
  bootEnv,         \* the environment variables the script reads
  bootFs,          \* the world: database reachable, wp-config.php, WordPress installed
  bootSlugs,       \* the slugs of WP_PLUGINS the loop has still to visit
  bootLog          \* history: the commands run so far, with their exit status

bootVars == <<bootPc, bootEnv, bootFs, bootSlugs, bootLog>>

(***************************************************************************)
(* Headless Reset Link plugin                                              *)
(***************************************************************************)
VARIABLES
  hrlConfig,       \* FRONTEND_APP_URL (or undefined), option hrl_frontend_url, home_url()
  hrlRequest,      \* the key and login of the last password-reset mail
  hrlUrl,          \* what the retrieve_password_url filter returned for it
  hrlMessage,      \* what the retrieve_password_message filter returned: its lines
  wcMail           \* the WooCommerce customer-reset-password mail last rendered

hrlVars == <<hrlConfig, hrlRequest, hrlUrl, hrlMessage, wcMail>>

(***************************************************************************)
(* Checkout and OrderConfirmation pages                                    *)
(***************************************************************************)
VARIABLES
  shipping,        \* Checkout: useState(emptyShipping), the required fields
  checkoutError,   \* Checkout: useState(""), the error box
  checkingOut,     \* Checkout: useMutation(CHECKOUT).loading
  checkoutInFlight,\* the inputs of the checkout mutations not yet answered
  route,           \* the page shown: "checkout" or "order-confirmation"
  routeId,         \* OrderConfirmation: useParams().id
  orderQuery,      \* OrderConfirmation: useQuery(GET_ORDER_BY_DBID)
  lastCheckout     \* history: the last placeOrder step and the order answered

checkoutVars == <<shipping, checkoutError, checkingOut, checkoutInFlight, route,
                  routeId, orderQuery, lastCheckout>>

nonListVars == <<authVars, addVars, cartVars, priceVars, bootVars, hrlVars, checkoutVars>>
nonAuthVars == <<listVars, addVars, cartVars, priceVars, bootVars, hrlVars, checkoutVars>>
nonAddVars == <<listVars, cartVars, priceVars, bootVars, hrlVars, checkoutVars>>
nonCartVars == <<listVars, addVars, priceVars, bootVars, hrlVars, checkoutVars>>
nonPriceVars == <<listVars, authVars, addVars, cartVars, bootVars, hrlVars, checkoutVars>>
nonBootVars == <<listVars, authVars, addVars, cartVars, priceVars, hrlVars, checkoutVars>>
nonHrlVars == <<listVars, authVars, addVars, cartVars, priceVars, bootVars, checkoutVars>>

nonCheckoutVars == <<listVars, authVars, addVars, cartVars, priceVars, bootVars, hrlVars>>

vars == <<listVars, authVars, addVars, cartVars, priceVars, bootVars, hrlVars,
          checkoutVars>>

\* endCursor values a server may answer with ("" : an empty cursor string)
EndCursors == {"c1", "c2", ""}

NoData == [loaded |-> FALSE, hasNextPage |-> FALSE, endCursor |-> Null]

\* a products request: the GraphQL variables it carries
Request(op, c, aft, s, o) ==
  [op |-> op, after |-> aft, search |-> OrNull(s),
   orderbyField |-> OrderVars(c, o).field, order |-> OrderVars(c, o).order]

\* useQuery's `after` variable for the given state
HookAfter(c, p, stack, aft) ==
  IF c = "LatestOffers" THEN aft ELSE OrNull(ArrayGet(stack, p - 1))

NoOrig == [k \in 1..(MaxPage + 1) |-> IF k = 1 THEN Null ELSE Undefined]

ListMounted(c) ==
  /\ component = c
  /\ page = 1
  /\ endCursorStack = <<Null>>
  /\ after = Null
  /\ search = ""
  /\ ordering = InitialOrdering(component)
  /\ filter = "All"
  /\ data = NoData
  /\ lastReqs = {Request("query", component, Null, "", InitialOrdering(component))}
  /\ lastOp = "mount"
  /\ prevPage = 1
  /\ prevStreak = 0
  /\ streak = 0
  /\ origAfter = NoOrig

\* the network answers the query for the current variables
QueryResult ==
  /\ ~data.loaded
  /\ \E h \in BOOLEAN, e \in EndCursors :
       data' = [loaded |-> TRUE, hasNextPage |-> h, endCursor |-> e]
  /\ lastReqs' = {}
  /\ lastOp' = "result"
  /\ prevPage' = page
  /\ prevStreak' = streak
  /\ UNCHANGED nonListVars
  /\ UNCHANGED <<component, page, endCursorStack, after, search, ordering, filter,
                 streak, origAfter>>

ResetEffect_KeepStack(s, o, f) ==
  /\ page' = 1
  /\ endCursorStack' = endCursorStack
  /\ after' = Null
  /\ search' = s
  /\ ordering' = o
  /\ filter' = f
  /\ data' = NoData
  /\ lastReqs' = {Request("refetch", component, Null, s, o),
                  Request("query", component, HookAfter(component, 1, endCursorStack, Null), s, o)}
  /\ lastOp' = "reset"
  /\ prevPage' = page
  /\ prevStreak' = streak
  /\ UNCHANGED nonListVars
  /\ streak' = 0
  /\ origAfter' = NoOrig
  /\ UNCHANGED component

\* the effect "reset to page 1 when changing filters/search/order", for new inputs
ResetEffect(s, o, f) ==
  /\ page' = 1
  /\ endCursorStack' = <<Null>>
  /\ after' = Null
  /\ search' = s
  /\ ordering' = o
  /\ filter' = f
  /\ data' = NoData
  /\ lastReqs' = {Request("refetch", component, Null, s, o),
                  Request("query", component, HookAfter(component, 1, <<Null>>, Null), s, o)}
  /\ lastOp' = "reset"
  /\ prevPage' = page
  /\ prevStreak' = streak
  /\ UNCHANGED nonListVars
  /\ streak' = 0
  /\ origAfter' = NoOrig
  /\ UNCHANGED component

setSearch ==
  \E s \in {"", "tecno"} : s # search /\ ResetEffect(s, ordering, filter)

setOrdering ==
  \E o \in OrderingOptions(component) : o # ordering /\ ResetEffect(search, o, filter)

\* LatestOffers' brand / label selects and BudgetSmartphoneDeals' brand / badge
\* selects are not dependencies of the page's reset effect and are no query
\* variable: they filter the loaded page client-side only
setFilter ==
  \E f \in {"All", "Samsung"} :
    /\ f # filter
    /\ IF component \in {"LatestOffers", "BudgetSmartphoneDeals"}
       THEN /\ filter' = f
            /\ lastReqs' = {}
            /\ lastOp' = "filter"
            /\ prevPage' = page
            /\ prevStreak' = streak
            /\ UNCHANGED nonListVars
            /\ UNCHANGED <<component, page, endCursorStack, after, search, ordering,
                           data, streak, origAfter>>
       ELSE ResetEffect(search, ordering, f)

hasNext == data.loaded /\ data.hasNextPage
hasPrev == page > 1

NoOp(op) ==
  /\ lastOp' = op
  /\ lastReqs' = {}
  /\ prevPage' = page
  /\ prevStreak' = streak
  /\ UNCHANGED nonListVars
  /\ UNCHANGED <<component, page, endCursorStack, after, search, ordering, filter,
                 data, streak, origAfter>>

goNext_NoGuard ==
  /\ component \in StackPages
  /\ page < MaxPage
  /\ IF FALSE THEN NoOp("goNext-noop")
     ELSE LET aft == OrNull(data.endCursor)
              nextStack == ArraySet(endCursorStack, page, aft)
          IN /\ endCursorStack' = nextStack
             /\ page' = page + 1
             /\ lastReqs' = {Request("fetchMore", component, aft, search, ordering),
                             Request("query", component,
                                     HookAfter(component, page + 1, nextStack, after),
                                     search, ordering)}
             /\ data' = NoData
             /\ lastOp' = "goNext"
             /\ prevPage' = page
             /\ prevStreak' = streak
             /\ UNCHANGED nonListVars
             /\ streak' = IF streak >= 0 /\ page = streak + 1 THEN streak + 1 ELSE -1
             /\ origAfter' = [origAfter EXCEPT ![page + 1] = aft]
             /\ UNCHANGED <<component, after, search, ordering, filter>>

\* goNext of the cursor-stack pages
goNext ==
  /\ component \in StackPages
  /\ page < MaxPage
  /\ IF ~hasNext THEN NoOp("goNext-noop")
     ELSE LET aft == OrNull(data.endCursor)
              nextStack == ArraySet(endCursorStack, page, aft)
          IN /\ endCursorStack' = nextStack
             /\ page' = page + 1
             /\ lastReqs' = {Request("fetchMore", component, aft, search, ordering),
                             Request("query", component,
                                     HookAfter(component, page + 1, nextStack, after),
                                     search, ordering)}
             /\ data' = NoData
             /\ lastOp' = "goNext"
             /\ prevPage' = page
             /\ prevStreak' = streak
             /\ UNCHANGED nonListVars
             /\ streak' = IF streak >= 0 /\ page = streak + 1 THEN streak + 1 ELSE -1
             /\ origAfter' = [origAfter EXCEPT ![page + 1] = aft]
             /\ UNCHANGED <<component, after, search, ordering, filter>>

goPrev_OffByOne ==
  /\ component \in StackPages
  /\ IF ~hasPrev THEN NoOp("goPrev-noop")
     ELSE LET prevIndex == Max(0, page - 1)
              aft == OrNull(ArrayGet(endCursorStack, prevIndex))
          IN /\ page' = Max(1, page - 1)
             /\ lastReqs' = {Request("refetch", component, aft, search, ordering),
                             Request("query", component,
                                     HookAfter(component, Max(1, page - 1),
                                               endCursorStack, after),
                                     search, ordering)}
             /\ data' = NoData
             /\ lastOp' = "goPrev"
             /\ prevPage' = page
             /\ prevStreak' = streak
             /\ UNCHANGED nonListVars
             /\ streak' = IF Max(1, page - 1) = 1 THEN 0 ELSE -1
             /\ UNCHANGED <<component, endCursorStack, after, search, ordering, filter,
                            origAfter>>

\* goPrev of the cursor-stack pages
goPrev ==
  /\ component \in StackPages
  /\ IF ~hasPrev THEN NoOp("goPrev-noop")
     ELSE LET prevIndex == Max(0, page - 2)
              aft == OrNull(ArrayGet(endCursorStack, prevIndex))
          IN /\ page' = Max(1, page - 1)
             /\ lastReqs' = {Request("refetch", component, aft, search, ordering),
                             Request("query", component,
                                     HookAfter(component, Max(1, page - 1),
                                               endCursorStack, after),
                                     search, ordering)}
             /\ data' = NoData
             /\ lastOp' = "goPrev"
             /\ prevPage' = page
             /\ prevStreak' = streak
             /\ UNCHANGED nonListVars
             /\ streak' = IF Max(1, page - 1) = 1 THEN 0 ELSE -1
             /\ UNCHANGED <<component, endCursorStack, after, search, ordering, filter,
                            origAfter>>

\* goNext of LatestOffers
LatestOffers_goNext ==
  /\ component = "LatestOffers"
  /\ page < MaxPage
  /\ IF ~hasNext THEN NoOp("goNext-noop")
     ELSE /\ after' = data.endCursor
          /\ page' = page + 1
          /\ lastReqs' = {Request("refetch", component, data.endCursor, search, ordering),
                          Request("query", component,
                                  HookAfter(component, page + 1, endCursorStack,
                                            data.endCursor),
                                  search, ordering)}
          /\ data' = NoData
          /\ lastOp' = "goNext"
          /\ prevPage' = page
          /\ prevStreak' = streak
          /\ UNCHANGED nonListVars
          /\ streak' = IF streak >= 0 /\ page = streak + 1 THEN streak + 1 ELSE -1
          /\ origAfter' = [origAfter EXCEPT ![page + 1] = data.endCursor]
          /\ UNCHANGED <<component, endCursorStack, search, ordering, filter>>

LatestOffers_goPrev_KeepCursor ==
  /\ component = "LatestOffers"
  /\ IF ~hasPrev THEN NoOp("goPrev-noop")
     ELSE /\ page' = 1
          /\ lastReqs' = {Request("refetch", component, Null, search, ordering),
                          Request("query", component,
                                  HookAfter(component, 1, endCursorStack, after),
                                  search, ordering)}
          /\ data' = NoData
          /\ lastOp' = "goPrev"
          /\ prevPage' = page
          /\ prevStreak' = streak
          /\ UNCHANGED nonListVars
          /\ streak' = 0
          /\ UNCHANGED <<component, endCursorStack, after, search, ordering, filter,
                         origAfter>>

\* goPrev of LatestOffers: "simplest: jump back to first page"
LatestOffers_goPrev ==
  /\ component = "LatestOffers"
  /\ IF ~hasPrev THEN NoOp("goPrev-noop")
     ELSE /\ after' = Null
          /\ page' = 1
          /\ lastReqs' = {Request("refetch", component, Null, search, ordering),
                          Request("query", component,
                                  HookAfter(component, 1, endCursorStack, Null),
                                  search, ordering)}
          /\ data' = NoData
          /\ lastOp' = "goPrev"
          /\ prevPage' = page
          /\ prevStreak' = streak
          /\ UNCHANGED nonListVars
          /\ streak' = 0
          /\ UNCHANGED <<component, endCursorStack, search, ordering, filter,
                         origAfter>>

NextList ==
  \/ QueryResult
  \/ setSearch
  \/ setOrdering
  \/ setFilter
  \/ goNext
  \/ goPrev
  \/ LatestOffers_goNext
  \/ LatestOffers_goPrev

(***************************************************************************)
(* localStorage "wpjwt", the Apollo auth link, LoginForm, Header auth      *)
(***************************************************************************)
Tokens == {"t1", "t2"}

\* A stored string, by what JSON.parse makes of it.  kind: "absent" (no such key,
\* getItem returns null), "empty" (the string ""), "garbage" (not JSON),
\* "jsonnull" (the text null), "object" (a JSON object; a key it does not hold
\* reads undefined).
Stored(kind, t, r, u) ==
  [kind |-> kind, authToken |-> t, refreshToken |-> r, user |-> u]
Absent == Stored("absent", Undefined, Undefined, Undefined)
JsonNull == Stored("jsonnull", Undefined, Undefined, Undefined)

\* JSON.stringify({authToken, refreshToken, user}): a key whose value is undefined
\* is left out of the text, null is written as null
JSONstringify(obj) == Stored("object", obj.authToken, obj.refreshToken, obj.user)

\* JSON.parse(text): throws on "" and on text that is not JSON
JSONparse(raw) ==
  [threw |-> raw.kind \in {"garbage", "empty", "absent"},
   isNull |-> raw.kind = "jsonnull",
   authToken |-> IF raw.kind = "object" THEN raw.authToken ELSE Undefined,
   user |-> IF raw.kind = "object" THEN raw.user ELSE Undefined]

\* what localStorage may hold under the key
StoredValues ==
  {Absent,
   Stored("empty", Undefined, Undefined, Undefined),
   Stored("garbage", Undefined, Undefined, Undefined),
   JsonNull,
   Stored("object", Undefined, Undefined, Undefined),
   Stored("object", "", Null, Null),
   Stored("object", "t1", "r1", "alice"),
   Stored("object", "t2", "r2", "bob"),
   Stored("object", "t2", Undefined, Undefined)}

\* apolloClient.js getAuthToken(), for the stored string `raw`
getAuthToken(raw) ==
  IF raw.kind \in {"absent", "empty"} THEN Null
  ELSE IF JSONparse(raw).threw THEN Null
  ELSE OrNull(JSONparse(raw).authToken)

NoAuthorization == [scheme |-> "none", token |-> Null]

\* apolloClient.js authLink: the Authorization header of an outgoing request
\* (operations of this app set no Authorization header of their own)
authLink_AlwaysAttach(raw) ==
  [scheme |-> "Bearer", token |-> getAuthToken(raw)]

authLink(raw) ==
  LET token == getAuthToken(raw)
  IN IF ~Falsy(token) THEN [scheme |-> "Bearer", token |-> token] ELSE NoAuthorization

\* Header.jsx readJWT(): JSON.parse(localStorage.getItem("wpjwt") || "null")
readJWT(raw) ==
  LET text == IF raw.kind \in {"absent", "empty"} THEN JsonNull ELSE raw
  IN IF JSONparse(text).threw THEN JSONparse(JsonNull) ELSE JSONparse(text)

\* Header.jsx getAccessToken(): readJWT()?.authToken || null
getAccessToken(raw) == OrNull(readJWT(raw).authToken)

\* Header.jsx getUser(): readJWT()?.user || null
getUser(raw) == OrNull(readJWT(raw).user)

\* Boolean(x)
Boolean(x) == ~Falsy(x)


\* data?.login of an answered login mutation
LoginPayloads ==
  [authToken : Tokens \cup {Null}, refreshToken : {"r1"}, user : {"alice", "bob"} \cup {Null}]


\* a request leaving the Apollo client now
Sent(op) == [op |-> op, Authorization |-> authLink(wpjwt), storageAtSend |-> wpjwt]

\* The app starts with whatever an earlier session left under the key; Header's
\* mount effect has run syncAuth once.
AuthStarted(stored) ==
  /\ wpjwt = stored
  /\ isAuthed = Boolean(getAccessToken(stored))
  /\ user = getUser(stored)
  /\ cartCount = 0
  /\ loginPc = "idle"
  /\ payload = [authToken |-> Null, refreshToken |-> Null, user |-> Null]
  /\ storageEvent = [pending |-> FALSE, key |-> "none", login |-> FALSE, written |-> Absent]
  /\ lastRequest = [op |-> "none", Authorization |-> NoAuthorization, storageAtSend |-> Absent]
  /\ authOp = "mount"

\* handleSubmit runs from its await to its end without yielding
Yielded == loginPc \in {"idle", "awaiting"}

\* any page's query or mutation goes out through the shared client
SendRequest ==
  /\ Yielded
  /\ lastRequest' = Sent("operation")
  /\ authOp' = "send"
  /\ UNCHANGED <<wpjwt, isAuthed, user, cartCount, loginPc, payload, storageEvent>>
  /\ UNCHANGED nonAuthVars

\* LoginForm.handleSubmit up to `await doLogin(...)`
handleSubmit ==
  /\ loginPc = "idle"
  /\ \E filled \in BOOLEAN :
       IF ~filled
       THEN /\ authOp' = "login-incomplete"
            /\ UNCHANGED <<loginPc, lastRequest>>
       ELSE /\ loginPc' = "awaiting"
            /\ lastRequest' = Sent("login")
            /\ authOp' = "login-sent"
  /\ UNCHANGED <<wpjwt, isAuthed, user, cartCount, payload, storageEvent>>
  /\ UNCHANGED nonAuthVars

\* the login mutation settles: rejected, or answered without a token (both end in
\* the catch block), or answered with a token, which is stored
loginSettled_NoWrite ==
  /\ loginPc = "awaiting"
  /\ \/ /\ loginPc' = "idle"
        /\ authOp' = "login-failed"
        /\ UNCHANGED <<wpjwt, payload>>
     \/ \E p \in LoginPayloads :
          IF Falsy(p.authToken)
          THEN /\ loginPc' = "idle"
               /\ authOp' = "login-failed"
               /\ UNCHANGED <<wpjwt, payload>>
          ELSE /\ UNCHANGED wpjwt
               /\ payload' = p
               /\ loginPc' = "written"
               /\ authOp' = "login-written"
  /\ UNCHANGED <<isAuthed, user, cartCount, storageEvent, lastRequest>>
  /\ UNCHANGED nonAuthVars

loginSettled ==
  /\ loginPc = "awaiting"
  /\ \/ /\ loginPc' = "idle"
        /\ authOp' = "login-failed"
        /\ UNCHANGED <<wpjwt, payload>>
     \/ \E p \in LoginPayloads :
          IF Falsy(p.authToken)
          THEN /\ loginPc' = "idle"
               /\ authOp' = "login-failed"
               /\ UNCHANGED <<wpjwt, payload>>
          ELSE /\ wpjwt' = JSONstringify(p)
               /\ payload' = p
               /\ loginPc' = "written"
               /\ authOp' = "login-written"
  /\ UNCHANGED <<isAuthed, user, cartCount, storageEvent, lastRequest>>
  /\ UNCHANGED nonAuthVars

\* Header's syncAuth, reading the stored string `raw`
syncAuth(raw) ==
  /\ isAuthed' = Boolean(getAccessToken(raw))
  /\ user' = getUser(raw)

\* window.dispatchEvent(new CustomEvent("auth-changed")): Header's listener runs
\* inside the call
dispatchAuthChanged ==
  /\ loginPc = "written"
  /\ syncAuth(wpjwt)
  /\ loginPc' = "dispatched"
  /\ authOp' = "login-dispatched"
  /\ UNCHANGED <<wpjwt, cartCount, payload, storageEvent, lastRequest>>
  /\ UNCHANGED nonAuthVars

\* toast.success, onSuccess, navigate("/")
loginDone ==
  /\ loginPc = "dispatched"
  /\ loginPc' = "idle"
  /\ authOp' = "login-done"
  /\ UNCHANGED <<wpjwt, isAuthed, user, cartCount, payload, storageEvent, lastRequest>>
  /\ UNCHANGED nonAuthVars

\* Header.handleLogout: clearAuth() (removeItem, then auth-changed, handled inside
\* the call), setCartCount(0), navigate("/"); the button shows when isAuthed
handleLogout ==
  /\ Yielded
  /\ isAuthed
  /\ wpjwt' = Absent
  /\ syncAuth(Absent)
  /\ cartCount' = 0
  /\ authOp' = "logout"
  /\ UNCHANGED <<loginPc, payload, storageEvent, lastRequest>>
  /\ UNCHANGED nonAuthVars

\* another tab of the app (or anything else of this origin) writes or removes the
\* key, or writes another key; this tab is sent a `storage` event
otherTabWrites ==
  /\ Yielded
  /\ ~storageEvent.pending
  /\ \/ \E p \in LoginPayloads :
          /\ ~Falsy(p.authToken)
          /\ wpjwt' = JSONstringify(p)
          /\ storageEvent' = [pending |-> TRUE, key |-> "wpjwt", login |-> TRUE,
                              written |-> JSONstringify(p)]
     \/ \E v \in StoredValues :
          /\ wpjwt' = v
          /\ storageEvent' = [pending |-> TRUE, key |-> "wpjwt", login |-> FALSE,
                              written |-> v]
     \/ /\ UNCHANGED wpjwt
        /\ storageEvent' = [pending |-> TRUE, key |-> "userEmail", login |-> FALSE,
                            written |-> Absent]
  /\ authOp' = "other-tab"
  /\ UNCHANGED <<isAuthed, user, cartCount, loginPc, payload, lastRequest>>
  /\ UNCHANGED nonAuthVars

\* Header's onStorage: if (e.key === "wpjwt") syncAuth()
onStorage ==
  /\ Yielded
  /\ storageEvent.pending
  /\ IF storageEvent.key = "wpjwt" THEN syncAuth(wpjwt) ELSE UNCHANGED <<isAuthed, user>>
  /\ storageEvent' = [storageEvent EXCEPT !.pending = FALSE]
  /\ authOp' = "onStorage"
  /\ UNCHANGED <<wpjwt, cartCount, loginPc, payload, lastRequest>>
  /\ UNCHANGED nonAuthVars

NextAuth ==
  \/ SendRequest
  \/ handleSubmit
  \/ loginSettled
  \/ dispatchAuthChanged
  \/ loginDone
  \/ handleLogout
  \/ otherTabWrites
  \/ onStorage

(***************************************************************************)
(* handleBuyNow / handleAddToCart and Header's cart-updated listener       *)
(***************************************************************************)
\* the cart badge is not counted beyond this
MaxCount == 2

\* the product nodes of the page: p1 and p2 are named by their integer
\* databaseId, p3 has none (null) and only its global id
Items == {"p1", "p2", "p3"}
databaseId(item) == IF item = "p3" THEN Null ELSE item
GlobalIds == {"gid1", "gid2", "gid3"}
n_id(item) == CASE item = "p1" -> "gid1" [] item = "p2" -> "gid2" [] OTHER -> "gid3"

\* normalize: product_id: n.databaseId || null
product_id(item) == OrNull(databaseId(item))

\* Laptops' normalize: id: n.databaseId ?? n.id, the value its card hands to
\* onAddToCart
Laptops_id(item) ==
  IF databaseId(item) \in {Null, Undefined} THEN n_id(item) ELSE databaseId(item)

\* a cart-updated event's detail, by the branch of Header's listener it takes
CountDetail(n) == [count |-> n]
DeltaDetail(d) == [delta |-> d]
NoDetail == [f \in {} |-> 0]

\* detail.items' (acc, it) => acc + (Number(it?.quantity ?? it?.qty ?? 0) || 0)
RECURSIVE reduceQuantities(_)
reduceQuantities(items) ==
  IF items = <<>> THEN 0
  ELSE LET it == Head(items)
       IN (IF "quantity" \in DOMAIN it THEN it.quantity
           ELSE IF "qty" \in DOMAIN it THEN it.qty ELSE 0)
          + reduceQuantities(Tail(items))

\* Header's onCartUpdated: the badge after an event with this detail (an event
\* without count, items or delta only asks for a refetch)
onCartUpdated_DeltaUnclamped(detail, c) ==
  IF "count" \in DOMAIN detail THEN detail.count
  ELSE IF "items" \in DOMAIN detail THEN reduceQuantities(detail.items)
  ELSE IF "delta" \in DOMAIN detail THEN c + detail.delta
  ELSE c

onCartUpdated(detail, c) ==
  IF "count" \in DOMAIN detail THEN detail.count
  ELSE IF "items" \in DOMAIN detail THEN reduceQuantities(detail.items)
  ELSE IF "delta" \in DOMAIN detail THEN Max(0, c + detail.delta)
  ELSE c

\* the details an event can carry; the items of a detail.items array
EventDetails ==
  {CountDetail(n) : n \in 0..MaxCount}
    \cup {DeltaDetail(d) : d \in {-2, 1}}
    \cup {[items |-> is] : is \in {<<>>, <<[quantity |-> 1]>>, <<NoDetail, [qty |-> 1]>>,
                                   <<[quantity |-> 1], [quantity |-> 1]>>}}
    \cup {NoDetail, [count |-> 1, delta |-> 1], [items |-> <<[quantity |-> 1]>>, delta |-> -2]}

NoCartEvent ==
  [detail |-> NoDetail, badgeBefore |-> 0, refetched |-> FALSE, refetching |-> FALSE]

\* what one handleBuyNow call has done: requests sent, toasts shown, events dispatched
NoCall == [sent |-> 0, errorToasts |-> 0, successToasts |-> 0, events |-> 0]


AddIdle ==
  /\ addingMap = [i \in Items |-> FALSE]
  /\ awaiting = {}
  /\ calls = [i \in Items |-> NoCall]
  /\ lastAdd = [item |-> "none", outcome |-> "none", badgeBefore |-> 0, productId |-> Null]
  /\ cartEvent = NoCartEvent

\* handleBuyNow(item) up to `await mutateAddToCart(...)`; the button is disabled
\* while the item is being added
handleBuyNow ==
  /\ Yielded
  /\ \E item \in Items :
       /\ ~addingMap[item]
       /\ IF Falsy(product_id(item))
          THEN /\ calls' = [calls EXCEPT ![item] = [NoCall EXCEPT !.errorToasts = 1]]
               /\ lastAdd' = [item |-> item, outcome |-> "unavailable",
                              badgeBefore |-> cartCount, productId |-> Null]
               /\ UNCHANGED <<addingMap, awaiting, lastRequest>>
          ELSE /\ addingMap' = [addingMap EXCEPT ![item] = TRUE]
               /\ awaiting' = awaiting \cup {item}
               /\ lastRequest' = Sent("addToCart")
               /\ calls' = [calls EXCEPT ![item] = [NoCall EXCEPT !.sent = 1]]
               /\ lastAdd' = [item |-> item, outcome |-> "sent", badgeBefore |-> cartCount,
                              productId |-> product_id(item)]
  /\ UNCHANGED <<wpjwt, isAuthed, user, cartCount, loginPc, payload, storageEvent, authOp>>
  /\ UNCHANGED cartEvent
  /\ UNCHANGED nonAddVars

\* Laptops' handleAddToCart(productId, productName) up to `await
\* mutateAddToCart(...)`: no test of the id before the request
handleAddToCart ==
  /\ Yielded
  /\ \E item \in Items :
       /\ ~addingMap[item]
       /\ addingMap' = [addingMap EXCEPT ![item] = TRUE]
       /\ awaiting' = awaiting \cup {item}
       /\ lastRequest' = Sent("addToCart")
       /\ calls' = [calls EXCEPT ![item] = [NoCall EXCEPT !.sent = 1]]
       /\ lastAdd' = [item |-> item, outcome |-> "sent", badgeBefore |-> cartCount,
                      productId |-> Laptops_id(item)]
  /\ UNCHANGED <<wpjwt, isAuthed, user, cartCount, loginPc, payload, storageEvent, authOp>>
  /\ UNCHANGED cartEvent
  /\ UNCHANGED nonAddVars

\* try: dispatch cart-updated, toast.success
Added(item, detail) ==
  /\ cartCount' = onCartUpdated(detail, cartCount)
  /\ calls' = [calls EXCEPT ![item].events = @ + 1, ![item].successToasts = @ + 1]
  /\ lastAdd' = [item |-> item, outcome |-> "added", badgeBefore |-> cartCount,
                 productId |-> Null]

\* catch: toast.error
Failed(item) ==
  /\ calls' = [calls EXCEPT ![item].errorToasts = @ + 1]
  /\ lastAdd' = [item |-> item, outcome |-> "failed", badgeBefore |-> cartCount,
                 productId |-> Null]
  /\ UNCHANGED cartCount

addToCartSettled_NoFinally ==
  /\ Yielded
  /\ \E item \in awaiting :
       /\ awaiting' = awaiting \ {item}
       /\ \/ /\ \E n \in 0..MaxCount : Added(item, CountDetail(n))
             /\ addingMap' = [addingMap EXCEPT ![item] = FALSE]
          \/ /\ cartCount < MaxCount
             /\ Added(item, DeltaDetail(1))
             /\ addingMap' = [addingMap EXCEPT ![item] = FALSE]
          \/ /\ Failed(item)
             /\ UNCHANGED addingMap
  /\ UNCHANGED <<wpjwt, isAuthed, user, loginPc, payload, storageEvent, lastRequest, authOp>>
  /\ UNCHANGED cartEvent
  /\ UNCHANGED nonAddVars

\* the mutation settles and handleBuyNow runs to its end: answered with the new
\* itemCount (event with count), answered without it (event with delta 1), or
\* rejected (catch: one error toast); finally clears the item's flag
addToCartSettled ==
  /\ Yielded
  /\ \E item \in awaiting :
       /\ awaiting' = awaiting \ {item}
       /\ addingMap' = [addingMap EXCEPT ![item] = FALSE]
       /\ \/ \E n \in 0..MaxCount : Added(item, CountDetail(n))
          \/ /\ cartCount < MaxCount
             /\ Added(item, DeltaDetail(1))
          \/ Failed(item)
  /\ UNCHANGED <<wpjwt, isAuthed, user, loginPc, payload, storageEvent, lastRequest, authOp>>
  /\ UNCHANGED cartEvent
  /\ UNCHANGED nonAddVars

\* a cart-updated event reaches Header's listener
cartUpdated ==
  /\ Yielded
  /\ \E detail \in EventDetails :
       /\ onCartUpdated(detail, cartCount) <= MaxCount
       /\ cartCount' = onCartUpdated(detail, cartCount)
       /\ LET refetch == DOMAIN detail \cap {"count", "items", "delta"} = {} /\ isAuthed
          IN /\ cartEvent' = [detail |-> detail, badgeBefore |-> cartCount,
                              refetched |-> refetch,
                              refetching |-> refetch \/ cartEvent.refetching]
             /\ IF refetch THEN lastRequest' = Sent("GetCartCount")
                ELSE UNCHANGED lastRequest
  /\ UNCHANGED <<wpjwt, isAuthed, user, loginPc, payload, storageEvent, authOp>>
  /\ UNCHANGED <<addingMap, awaiting, calls, lastAdd>>
  /\ UNCHANGED nonAddVars

\* the refetched GET_CART_COUNT answers: the effect on cartData sets the badge to
\* a numeric itemCount (the query is skipped, and its data undefined, when logged out)
refetchCartCountSettled ==
  /\ Yielded
  /\ cartEvent.refetching
  /\ cartEvent' = [cartEvent EXCEPT !.refetching = FALSE]
  /\ IF isAuthed THEN \E count \in 0..MaxCount : cartCount' = count
     ELSE UNCHANGED cartCount
  /\ UNCHANGED <<wpjwt, isAuthed, user, loginPc, payload, storageEvent, lastRequest, authOp>>
  /\ UNCHANGED <<addingMap, awaiting, calls, lastAdd>>
  /\ UNCHANGED nonAddVars

NextAdd ==
  \/ handleBuyNow
  \/ handleAddToCart
  \/ addToCartSettled

NextBadge ==
  \/ cartUpdated
  \/ refetchCartCountSettled
  \/ handleLogout

(***************************************************************************)
(* Cart: onInc / onDec / onRemove                                          *)
(***************************************************************************)
\* quantities of a line are not raised beyond this
MaxQty == 2
\* handler calls that can be running at once
MaxOps == 2

Keys == {"k1", "k2"}
Handlers == 1..MaxOps

RECURSIVE SumQty(_, _)
SumQty(cart, ks) ==
  IF ks = {} THEN 0
  ELSE LET k == CHOOSE k \in ks : TRUE IN cart[k] + SumQty(cart, ks \ {k})

\* contents.itemCount as the server reports it, and the sum broadcastSnapshot
\* computes from the nodes' quantities
itemCount(cart) == SumQty(cart, Keys)

IdleOp ==
  [pc |-> "idle", key |-> "none", kind |-> "none", op |-> "none", quantity |-> 0,
   itemCount |-> 0, consoleErrors |-> 0, toasts |-> 0, refetches |-> 0]

NoCartStep == [h |-> 0, step |-> "none"]

CartIdle ==
  /\ cartServer = [k \in Keys |-> 0]
  /\ cartData = [k \in Keys |-> 0]
  /\ cartLoading = TRUE
  /\ cartError = FALSE
  /\ busyKeys = [k \in Keys |-> FALSE]
  /\ ops = [h \in Handlers |-> IdleOp]
  /\ lastCart = NoCartStep

\* the Cart page mounts: GET_CART is in flight, the server holds some cart
CartMounted(cart) ==
  /\ cartServer = cart
  /\ cartData = [k \in Keys |-> 0]
  /\ cartLoading = TRUE
  /\ cartError = FALSE
  /\ busyKeys = [k \in Keys |-> FALSE]
  /\ ops = [h \in Handlers |-> IdleOp]
  /\ lastCart = NoCartStep

\* the data effect: broadcastCount(itemCount), then broadcastSnapshot(items),
\* whose count is the sum of the nodes' quantities
BroadcastData(cart, c) ==
  onCartUpdated(CountDetail(SumQty(cart, Keys)),
                onCartUpdated(CountDetail(itemCount(cart)), c))

\* GET_CART delivers the first data; the data effect broadcasts the count
cartDelivered ==
  /\ Yielded
  /\ cartLoading
  /\ cartLoading' = FALSE
  /\ cartData' = cartServer
  /\ cartCount' = BroadcastData(cartServer, cartCount)
  /\ lastCart' = [h |-> 0, step |-> "delivered"]
  /\ UNCHANGED <<cartServer, cartError, busyKeys, ops>>
  /\ UNCHANGED <<wpjwt, isAuthed, user, loginPc, payload, storageEvent, lastRequest, authOp>>
  /\ UNCHANGED nonCartVars

\* useMutation's loading flags
updating == \E h \in Handlers : ops[h].pc = "mutating" /\ ops[h].op = "updateItemQuantities"
removing == \E h \in Handlers : ops[h].pc = "mutating" /\ ops[h].op = "removeItemsFromCart"

RowBusy_MutationsOnly(key) == updating \/ removing

\* the row's busy prop
RowBusy(key) == busyKeys[key] \/ updating \/ removing

\* a row button's onClick up to the handler's first await: setBusy(key, true)
\* and the mutation request
CartClick(h, key, kind, op, quantity) ==
  /\ Yielded
  /\ ~cartLoading
  /\ ~cartError
  /\ cartData[key] > 0
  /\ ~RowBusy(key)
  /\ ops[h].pc \in {"idle", "done"}
  /\ \A g \in Handlers : g < h => ops[g].pc \notin {"idle", "done"}
  /\ busyKeys' = [busyKeys EXCEPT ![key] = TRUE]
  /\ ops' = [ops EXCEPT ![h] =
       [IdleOp EXCEPT !.pc = "mutating", !.key = key, !.kind = kind, !.op = op,
                      !.quantity = quantity, !.itemCount = itemCount(cartData)]]
  /\ lastCart' = [h |-> h, step |-> "clicked"]
  /\ lastRequest' = Sent(op)
  /\ UNCHANGED <<cartServer, cartData, cartLoading, cartError>>
  /\ UNCHANGED <<wpjwt, isAuthed, user, cartCount, loginPc, payload, storageEvent, authOp>>
  /\ UNCHANGED nonCartVars

onInc ==
  \E h \in Handlers, key \in Keys :
    /\ cartData[key] + 1 <= MaxQty
    /\ CartClick(h, key, "onInc", "updateItemQuantities", cartData[key] + 1)

onDec_AlwaysUpdate ==
  \E h \in Handlers, key \in Keys :
    CartClick(h, key, "onDec", "updateItemQuantities", cartData[key] - 1)

onDec ==
  \E h \in Handlers, key \in Keys :
    IF cartData[key] - 1 <= 0
    THEN CartClick(h, key, "onDec", "removeItemsFromCart", 0)
    ELSE CartClick(h, key, "onDec", "updateItemQuantities", cartData[key] - 1)

onRemove ==
  \E h \in Handlers, key \in Keys :
    CartClick(h, key, "onRemove", "removeItemsFromCart", 0)

\* the server's cart after the mutation of call o
Applied(o) ==
  IF o.op = "removeItemsFromCart"
  THEN [cartServer EXCEPT ![o.key] = 0]
  ELSE IF cartServer[o.key] > 0
       THEN [cartServer EXCEPT ![o.key] = o.quantity]
       ELSE cartServer

\* catch (e) { console.error(e); await refetch(); }
Caught(o) ==
  [o EXCEPT !.pc = "refetchCatch", !.consoleErrors = @ + 1, !.refetches = @ + 1,
            !.quantity = 0, !.itemCount = 0]

\* the mutation of a running call settles (its variables and the itemCount the
\* call closed over are not used after that and are dropped): answered (broadcastCount with the
\* answer's itemCount, or the page's itemCount when the answer has none, then
\* refetch) or rejected (catch: console.error, refetch; the server may or may
\* not have applied the change)
cartMutationSettled ==
  /\ Yielded
  /\ \E h \in Handlers :
       /\ ops[h].pc = "mutating"
       /\ \/ /\ cartServer' = Applied(ops[h])
             /\ \E count \in {itemCount(Applied(ops[h])), ops[h].itemCount} :
                  cartCount' = onCartUpdated(CountDetail(count), cartCount)
             /\ ops' = [ops EXCEPT ![h].pc = "refetchTry", ![h].refetches = @ + 1,
                                   ![h].quantity = 0, ![h].itemCount = 0]
             /\ lastCart' = [h |-> h, step |-> "mutated"]
          \/ /\ cartServer' \in {cartServer, Applied(ops[h])}
             /\ ops' = [ops EXCEPT ![h] = Caught(@)]
             /\ lastCart' = [h |-> h, step |-> "mutationFailed"]
             /\ UNCHANGED cartCount
  /\ UNCHANGED <<cartData, cartLoading, cartError, busyKeys>>
  /\ UNCHANGED <<wpjwt, isAuthed, user, loginPc, payload, storageEvent, lastRequest, authOp>>
  /\ UNCHANGED nonCartVars

cartRefetchSettled_NoFinally ==
  /\ Yielded
  /\ \E h \in Handlers :
       /\ ops[h].pc \in {"refetchTry", "refetchCatch"}
       /\ \/ /\ cartData' = cartServer
             /\ cartError' = FALSE
             /\ cartCount' = BroadcastData(cartServer, cartCount)
             /\ ops' = [ops EXCEPT ![h].pc = "done"]
             /\ busyKeys' = [busyKeys EXCEPT ![ops[h].key] = FALSE]
             /\ lastCart' = [h |-> h, step |-> "refetched"]
          \/ /\ ops[h].pc = "refetchTry"
             /\ cartError' = TRUE
             /\ ops' = [ops EXCEPT ![h] = Caught(@)]
             /\ lastCart' = [h |-> h, step |-> "refetchFailed"]
             /\ UNCHANGED <<cartData, cartCount, busyKeys>>
          \/ /\ ops[h].pc = "refetchCatch"
             /\ cartError' = TRUE
             /\ ops' = [ops EXCEPT ![h].pc = "done"]
             /\ lastCart' = [h |-> h, step |-> "refetchRejected"]
             /\ UNCHANGED <<cartData, cartCount, busyKeys>>
  /\ UNCHANGED <<cartServer, cartLoading>>
  /\ UNCHANGED <<wpjwt, isAuthed, user, loginPc, payload, storageEvent, lastRequest, authOp>>
  /\ UNCHANGED nonCartVars

\* a refetch of a running call settles.  Delivered: the data effect broadcasts
\* the count and the snapshot, and the handler reaches finally.  Rejected in the
\* try block: catch refetches once more; rejected in the catch block: the
\* rejection leaves the handler, through finally.
cartRefetchSettled ==
  /\ Yielded
  /\ \E h \in Handlers :
       /\ ops[h].pc \in {"refetchTry", "refetchCatch"}
       /\ \/ /\ cartData' = cartServer
             /\ cartError' = FALSE
             /\ cartCount' = BroadcastData(cartServer, cartCount)
             /\ ops' = [ops EXCEPT ![h].pc = "done"]
             /\ busyKeys' = [busyKeys EXCEPT ![ops[h].key] = FALSE]
             /\ lastCart' = [h |-> h, step |-> "refetched"]
          \/ /\ ops[h].pc = "refetchTry"
             /\ cartError' = TRUE
             /\ ops' = [ops EXCEPT ![h] = Caught(@)]
             /\ lastCart' = [h |-> h, step |-> "refetchFailed"]
             /\ UNCHANGED <<cartData, cartCount, busyKeys>>
          \/ /\ ops[h].pc = "refetchCatch"
             /\ cartError' = TRUE
             /\ ops' = [ops EXCEPT ![h].pc = "done"]
             /\ busyKeys' = [busyKeys EXCEPT ![ops[h].key] = FALSE]
             /\ lastCart' = [h |-> h, step |-> "refetchRejected"]
             /\ UNCHANGED <<cartData, cartCount>>
  /\ UNCHANGED <<cartServer, cartLoading>>
  /\ UNCHANGED <<wpjwt, isAuthed, user, loginPc, payload, storageEvent, lastRequest, authOp>>
  /\ UNCHANGED nonCartVars

NextCart ==
  \/ cartDelivered
  \/ onInc
  \/ onDec
  \/ onRemove
  \/ cartMutationSettled
  \/ cartRefetchSettled

(***************************************************************************)
(* Price normalisation: toNumber / money / allItems / items / deriveView   *)
(* Price strings are sequences of characters; PNull is a null field.       *)
(***************************************************************************)
PNull == <<Null>>
PFalsy(x) == x = PNull \/ x = <<>>

\* a || b on price fields
PriceOr(a, b) == IF PFalsy(a) THEN b ELSE a

DigitChars == <<"0", "1", "2", "3", "4", "5", "6", "7", "8", "9">>
IsDigit(ch) == \E i \in 1..10 : DigitChars[i] = ch
DigitVal(ch) == (CHOOSE i \in 1..10 : DigitChars[i] = ch) - 1

RECURSIVE NatOf(_)
NatOf(ds) ==
  IF ds = <<>> THEN 0
  ELSE NatOf(SubSeq(ds, 1, Len(ds) - 1)) * 10 + DigitVal(ds[Len(ds)])

RECURSIVE DigitsOf(_)
DigitsOf(n) ==
  IF n < 10 THEN <<DigitChars[n + 1]>>
  ELSE DigitsOf(n \div 10) \o <<DigitChars[(n % 10) + 1]>>

RECURSIVE ltrim(_, _)
ltrim(str, ch) ==
  IF str # <<>> /\ Head(str) = ch THEN ltrim(Tail(str), ch) ELSE str

RECURSIVE rtrim(_, _)
rtrim(str, ch) ==
  IF str # <<>> /\ str[Len(str)] = ch THEN rtrim(SubSeq(str, 1, Len(str) - 1), ch) ELSE str

\* the string without the blanks around it (JS Number's white space, PHP trim)
trim(str) == rtrim(ltrim(str, " "), " ")

\* JS numbers of the model: a value in thousandths, NaN, or null
Num(milli) == [kind |-> "num", milli |-> milli]
NaN == [kind |-> "nan", milli |-> 0]
NumNull == [kind |-> "null", milli |-> 0]

\* Number(str) for strings of digits, ".", blanks and other characters:
\* blanks around the literal are skipped, "" is 0, anything that is not
\* digits with at most one "." is NaN
Number(str) ==
  LET t == trim(str)
      \* the three fraction digits of the literal, rounded on the fourth
      Thousandths(fr) ==
        LET padded == fr \o <<"0", "0", "0", "0">>
        IN NatOf(SubSeq(padded, 1, 3)) + (IF DigitVal(padded[4]) >= 5 THEN 1 ELSE 0)
      dots == {i \in 1..Len(t) : t[i] = "."}
  IN IF t = <<>> THEN Num(0)
     ELSE IF \E i \in 1..Len(t) : ~IsDigit(t[i]) /\ t[i] # "." THEN NaN
     ELSE IF Cardinality(dots) > 1 \/ t = <<".">> THEN NaN
     ELSE IF dots = {} THEN Num(NatOf(t) * 1000)
     ELSE LET d == CHOOSE i \in dots : TRUE
          IN Num(NatOf(SubSeq(t, 1, d - 1)) * 1000
                 + Thousandths(SubSeq(t, d + 1, Len(t))))

\* String(raw).replace(/[^\d.]/g, "")
StripNonNumeric(str) == SelectSeq(str, LAMBDA ch : IsDigit(ch) \/ ch = ".")

RECURSIVE Group(_)
Group(ds) ==
  IF Len(ds) <= 3 THEN ds
  ELSE Group(SubSeq(ds, 1, Len(ds) - 3)) \o <<",">> \o SubSeq(ds, Len(ds) - 2, Len(ds))

\* the fraction part of a number's text: up to three digits, no trailing zeros
Fraction(m) ==
  IF m = 0 THEN <<>>
  ELSE <<".">> \o rtrim(<<DigitChars[(m \div 100) + 1],
                              DigitChars[((m \div 10) % 10) + 1],
                          DigitChars[(m % 10) + 1]>>, "0")

\* n.toLocaleString() (en-US: thousands grouped by ",")
toLocaleString(n) == Group(DigitsOf(n.milli \div 1000)) \o Fraction(n.milli % 1000)

\* `${n}` of a number or null
NumToString(n) ==
  IF n.kind = "null" THEN <<"n", "u", "l", "l">>
  ELSE DigitsOf(n.milli \div 1000) \o Fraction(n.milli % 1000)

KSh == <<" ", "K", "S", "h">>

\* Smartphones.jsx toNumber
toNumber(raw) ==
  IF PFalsy(raw) THEN NumNull
  ELSE LET n == Number(StripNonNumeric(raw))
       IN IF n.kind = "nan" THEN NumNull ELSE n

\* the text of the card's price paragraph
Smartphones_priceText(price_display, price_min_ksh, price_max_ksh) ==
  IF price_display # <<>> THEN price_display
  ELSE IF price_max_ksh.kind = "num" /\ price_max_ksh.milli # 0
       THEN NumToString(price_min_ksh) \o <<" ", "-", " ">> \o NumToString(price_max_ksh) \o KSh
       ELSE (IF price_min_ksh.kind = "null" THEN <<>> ELSE NumToString(price_min_ksh)) \o KSh

Smartphones_allItems_PriceFirst(n) ==
  LET current == toNumber(PriceOr(PriceOr(n.price, n.salePrice), n.regularPrice))
      crossed == IF n.onSale /\ ~PFalsy(n.regularPrice)
                 THEN toNumber(n.regularPrice) ELSE NumNull
      price_display == IF current.kind # "null" THEN toLocaleString(current) \o KSh ELSE <<>>
  IN [price_display |-> price_display, price_min_ksh |-> current, price_max_ksh |-> crossed,
      text |-> Smartphones_priceText(price_display, current, crossed)]

\* Smartphones.jsx allItems (one node) and the card's price text
Smartphones_allItems(n) ==
  LET current == toNumber(PriceOr(PriceOr(n.salePrice, n.price), n.regularPrice))
      crossed == IF n.onSale /\ ~PFalsy(n.regularPrice)
                 THEN toNumber(n.regularPrice) ELSE NumNull
      price_display == IF current.kind # "null" THEN toLocaleString(current) \o KSh ELSE <<>>
  IN [price_display |-> price_display, price_min_ksh |-> current, price_max_ksh |-> crossed,
      text |-> Smartphones_priceText(price_display, current, crossed)]

\* LatestOffers.jsx money
LatestOffers_money(raw) ==
  IF PFalsy(raw) THEN <<>>
  ELSE LET n == Number(raw)
       IN IF n.kind = "nan" THEN raw ELSE toLocaleString(n)

\* LatestOffers.jsx items (one node) and the card's price texts
LatestOffers_items(n) ==
  LET priceRaw == PriceOr(PriceOr(PriceOr(n.salePrice, n.price), n.regularPrice), <<>>)
      oldPriceRaw == IF n.onSale THEN n.regularPrice ELSE PNull
      price_display == IF ~PFalsy(priceRaw) THEN LatestOffers_money(priceRaw) ELSE <<>>
      old_price_ksh == IF ~PFalsy(oldPriceRaw) THEN LatestOffers_money(oldPriceRaw) ELSE PNull
  IN [price_display |-> price_display, old_price_ksh |-> old_price_ksh,
      text |-> IF ~PFalsy(price_display) THEN price_display ELSE <<"Price unavailable">>,
      oldShown |-> ~PFalsy(old_price_ksh)]

\* the product detail page's money
money(raw) ==
  IF PFalsy(raw) THEN <<>>
  ELSE LET n == Number(StripNonNumeric(raw))
       IN IF n.kind = "nan" THEN raw ELSE <<"K", "s", "h", " ">> \o toLocaleString(n)

\* the product detail page's deriveView and price texts
deriveView(n) ==
  LET current == PriceOr(PriceOr(PriceOr(n.salePrice, n.price), n.regularPrice), PNull)
      old == IF n.onSale /\ ~PFalsy(n.regularPrice) THEN n.regularPrice ELSE PNull
      priceText == money(current)
      oldPriceText == IF ~PFalsy(old) THEN money(old) ELSE PNull
  IN [priceText |-> priceText, oldPriceText |-> oldPriceText,
      text |-> IF ~PFalsy(priceText) THEN priceText ELSE <<"-">>,
      oldShown |-> ~PFalsy(oldPriceText)]

\* price fields as the server may send them: absent, empty, plain, with
\* decimals, with currency and grouping, a range, and text without digits
PriceStrings ==
  { PNull,
    <<>>,
    <<"1", "2", "0", "0">>,
    <<"9", "5", "0", ".", "5", "0">>,
    <<"K", " ", "1", ",", "5", "0", "0">>,
    <<"1", ".", "5", "-", "2", ".", "5">>,
    <<"N", "A">> }


NoNode == [salePrice |-> PNull, price |-> PNull, regularPrice |-> PNull, onSale |-> FALSE]
NoView == [shown |-> FALSE]

PriceIdle ==
  /\ priceNode = NoNode
  /\ priceView = NoView

\* the products query is sent again: data is undefined while it loads, so the
\* pages have no node to show
productsLoading ==
  /\ priceView.shown
  /\ priceNode' = NoNode
  /\ priceView' = NoView
  /\ UNCHANGED nonPriceVars

\* a products answer delivers a node; each page normalises and shows it
normalizeNode ==
  /\ ~priceView.shown
  /\ \E n \in [salePrice : PriceStrings, price : PriceStrings,
              regularPrice : PriceStrings, onSale : BOOLEAN] :
       /\ priceNode' = n
       /\ priceView' = [shown |-> TRUE,
                        Smartphones |-> Smartphones_allItems(n),
                        LatestOffers |-> LatestOffers_items(n),
                        Detail |-> deriveView(n)]
  /\ UNCHANGED nonPriceVars

NextPrice ==
  \/ productsLoading
  \/ normalizeNode

(***************************************************************************)
(* docker-entrypoint-custom.sh (set -euo pipefail)                         *)
(***************************************************************************)
\* failed database probes the wait loop is followed through
MaxProbes == 2




Ran(cmd, arg, ok) == [cmd |-> cmd, arg |-> arg, ok |-> ok]

BootIdle ==
  /\ bootPc = "wait"
  /\ bootEnv = [dbHost |-> TRUE, dbVars |-> TRUE, home |-> FALSE, siteurl |-> FALSE,
                plugins |-> <<>>]
  /\ bootFs = [dbUp |-> FALSE, config |-> FALSE, installed |-> FALSE]
  /\ bootSlugs = <<>>
  /\ bootLog = <<>>

\* the container starts the script
BootStarted(env, world) ==
  /\ bootPc = "wait"
  /\ bootEnv = env
  /\ bootFs = world
  /\ bootSlugs = env.plugins
  /\ bootLog = <<>>

\* a command that failed outside `|| true` and outside an if condition ends the
\* script (set -e)
Step(cmd, arg, ok, next) ==
  /\ bootLog' = Append(bootLog, Ran(cmd, arg, ok))
  /\ bootPc' = IF ok THEN next ELSE "aborted"

\* a command followed by `|| true`, or used as an if condition
StepOrTrue(cmd, arg, ok, next) ==
  /\ bootLog' = Append(bootLog, Ran(cmd, arg, ok))
  /\ bootPc' = next

\* the database starts accepting connections
dbComesUp ==
  /\ ~bootFs.dbUp
  /\ bootFs' = [bootFs EXCEPT !.dbUp = TRUE]
  /\ UNCHANGED <<bootPc, bootEnv, bootSlugs, bootLog>>
  /\ UNCHANGED nonBootVars

\* until php -r '...fsockopen...'; do sleep 2; done
waitForDb ==
  /\ bootPc = "wait"
  /\ \/ /\ bootEnv.dbHost /\ bootFs.dbUp
        /\ StepOrTrue("probe", "", TRUE, "chown")
     \/ /\ ~(bootEnv.dbHost /\ bootFs.dbUp)
        /\ Len(SelectSeq(bootLog, LAMBDA r : r.cmd = "probe" /\ ~r.ok)) < MaxProbes
        /\ StepOrTrue("probe", "", FALSE, "wait")
  /\ UNCHANGED <<bootEnv, bootFs, bootSlugs>>
  /\ UNCHANGED nonBootVars

\* chown -R ...; find ... chmod 755 || true; find ... chmod 644 || true
fixPermissions ==
  /\ bootPc = "chown"
  /\ \E ok \in BOOLEAN, d \in BOOLEAN, f \in BOOLEAN :
       IF ok
       THEN /\ bootLog' = bootLog \o <<Ran("chown", "", TRUE), Ran("chmod", "d", d),
                                       Ran("chmod", "f", f)>>
            /\ bootPc' = "isInstalled"
       ELSE Step("chown", "", FALSE, "isInstalled")
  /\ UNCHANGED <<bootEnv, bootFs, bootSlugs>>
  /\ UNCHANGED nonBootVars

\* if ! wp core is-installed: it can succeed only on an installed WordPress
coreIsInstalled ==
  /\ bootPc = "isInstalled"
  /\ \E ok \in BOOLEAN :
       /\ ok => bootFs.installed
       /\ StepOrTrue("core is-installed", "", ok, IF ok THEN "options" ELSE "configCreate")
  /\ UNCHANGED <<bootEnv, bootFs, bootSlugs>>
  /\ UNCHANGED nonBootVars

\* wp config create --dbname="${WORDPRESS_DB_NAME}" ... : an unset variable ends
\* the script before the command runs (set -u); the command fails when a
\* wp-config.php exists already
configCreate ==
  /\ bootPc = "configCreate"
  /\ IF ~bootEnv.dbVars
     THEN /\ bootPc' = "aborted"
          /\ UNCHANGED <<bootLog, bootFs>>
     ELSE \E ok \in BOOLEAN :
            /\ ok => ~bootFs.config
            /\ Step("config create", "", ok, "coreInstall")
            /\ bootFs' = IF ok THEN [bootFs EXCEPT !.config = TRUE] ELSE bootFs
  /\ UNCHANGED <<bootEnv, bootSlugs>>
  /\ UNCHANGED nonBootVars

\* wp core install ...
coreInstall ==
  /\ bootPc = "coreInstall"
  /\ \E ok \in BOOLEAN :
       /\ ok => bootFs.config
       /\ Step("core install", "", ok, "options")
       /\ bootFs' = IF ok THEN [bootFs EXCEPT !.installed = TRUE] ELSE bootFs
  /\ UNCHANGED <<bootEnv, bootSlugs>>
  /\ UNCHANGED nonBootVars

\* wp option update home / siteurl, each only when its variable is set, || true
optionUpdates ==
  /\ bootPc = "options"
  /\ \E h \in BOOLEAN, u \in BOOLEAN :
       bootLog' = bootLog
                  \o (IF bootEnv.home THEN <<Ran("option update", "home", h)>> ELSE <<>>)
                  \o (IF bootEnv.siteurl THEN <<Ran("option update", "siteurl", u)>> ELSE <<>>)
  /\ bootPc' = IF bootSlugs = <<>> THEN "rewrite" ELSE "plugins"
  /\ UNCHANGED <<bootEnv, bootFs, bootSlugs>>
  /\ UNCHANGED nonBootVars

\* one round of `for slug in ${WP_PLUGINS}`
pluginLoop ==
  /\ bootPc = "plugins"
  /\ LET slug == Head(bootSlugs)
     IN \E found \in BOOLEAN, ok \in BOOLEAN :
          bootLog' = bootLog \o <<Ran("plugin is-installed", slug, found)>>
                     \o (IF found THEN <<Ran("plugin activate", slug, ok)>> ELSE <<>>)
  /\ bootSlugs' = Tail(bootSlugs)
  /\ bootPc' = IF Tail(bootSlugs) = <<>> THEN "rewrite" ELSE "plugins"
  /\ UNCHANGED <<bootEnv, bootFs>>
  /\ UNCHANGED nonBootVars

\* wp rewrite structure ... || true; wp rewrite flush --hard || true
rewrite ==
  /\ bootPc = "rewrite"
  /\ \E a \in BOOLEAN, b \in BOOLEAN :
       bootLog' = bootLog \o <<Ran("rewrite structure", "", a), Ran("rewrite flush", "", b)>>
  /\ bootPc' = "finalChown"
  /\ UNCHANGED <<bootEnv, bootFs, bootSlugs>>
  /\ UNCHANGED nonBootVars

\* chown -R www-data:www-data "$WP_PATH"
finalChown ==
  /\ bootPc = "finalChown"
  /\ \E ok \in BOOLEAN : Step("chown", "final", ok, "exec")
  /\ UNCHANGED <<bootEnv, bootFs, bootSlugs>>
  /\ UNCHANGED nonBootVars

\* exec "$ORIG_ENTRYPOINT" apache2-foreground
handOff ==
  /\ bootPc = "exec"
  /\ StepOrTrue("exec", "", TRUE, "handedOff")
  /\ UNCHANGED <<bootEnv, bootFs, bootSlugs>>
  /\ UNCHANGED nonBootVars

NextBoot ==
  \/ dbComesUp
  \/ waitForDb
  \/ fixPermissions
  \/ coreIsInstalled
  \/ configCreate
  \/ coreInstall
  \/ optionUpdates
  \/ pluginLoop
  \/ rewrite
  \/ finalChown
  \/ handOff

(***************************************************************************)
(* Headless Reset Link plugin: hrl_get_frontend_url,                       *)
(* hrl_build_frontend_reset_url and the two filters.  Strings are          *)
(* sequences of characters; the fixed parts of the URL are single tokens.  *)
(***************************************************************************)
\* configured URLs are tried up to this length
MaxUrlLen == 3

HrlUndefined == <<Undefined>>

\* PHP truthiness of a string
PhpFalsy(str) == str = <<>> \/ str = <<"0">>

\* rawurlencode of one character (PHP_QUERY_RFC3986): letters, digits and -_.~
\* stay, every other character becomes %XX
PercentCode(ch) ==
  CASE ch = " " -> <<"%", "2", "0">>
    [] ch = "&" -> <<"%", "2", "6">>
    [] ch = "@" -> <<"%", "4", "0">>
    [] ch = "/" -> <<"%", "2", "F">>
    [] ch = "=" -> <<"%", "3", "D">>
    [] ch = "%" -> <<"%", "2", "5">>
    [] OTHER -> <<ch>>

RECURSIVE rawurlencode(_)
rawurlencode(str) ==
  IF str = <<>> THEN <<>> ELSE PercentCode(Head(str)) \o rawurlencode(Tail(str))

\* http_build_query(array('key' => ..., 'login' => ...), '', '&', PHP_QUERY_RFC3986)
http_build_query(key, user_login) ==
  <<"key", "=">> \o rawurlencode(key) \o <<"&", "login", "=">> \o rawurlencode(user_login)

hrl_get_frontend_url_OptionFirst(cfg) ==
  LET chosen == IF ~PhpFalsy(cfg.option) THEN cfg.option
                ELSE IF cfg.constant # HrlUndefined THEN cfg.constant ELSE <<>>
      url == IF PhpFalsy(chosen) THEN cfg.home ELSE chosen
  IN rtrim(trim(url), "/")

hrl_get_frontend_url(cfg) ==
  LET chosen == IF cfg.constant # HrlUndefined /\ ~PhpFalsy(cfg.constant)
                THEN cfg.constant ELSE cfg.option
      url == IF PhpFalsy(chosen) THEN cfg.home ELSE chosen
  IN rtrim(trim(url), "/")

hrl_build_frontend_reset_url(cfg, key, user_login) ==
  hrl_get_frontend_url(cfg) \o <<"/reset-password", "?">> \o http_build_query(key, user_login)

\* the retrieve_password_url filter
retrieve_password_url(cfg, key, user_login) ==
  hrl_build_frontend_reset_url(cfg, key, user_login)

\* the retrieve_password_message filter: the lines of the mail
retrieve_password_message(cfg, key, user_login) ==
  LET reset_url == hrl_build_frontend_reset_url(cfg, key, user_login)
  IN << <<"Hi ">> \o user_login \o <<",">>,
        <<>>,
        <<"Someone has requested a password reset for the following account:">>,
        <<"Username: ">> \o user_login,
        <<>>,
        <<"If this was a mistake, just ignore this email and nothing will happen.">>,
        <<>>,
        <<"To reset your password, click the link below:">>,
        reset_url >>

RECURSIVE StringsUpTo(_, _)
StringsUpTo(alphabet, n) ==
  IF n = 0 THEN {<<>>}
  ELSE LET shorter == StringsUpTo(alphabet, n - 1)
       IN shorter \cup {Append(str, ch) : str \in shorter, ch \in alphabet}

\* values of the constant and of the option: a host letter, blanks, slashes
UrlStrings ==
  StringsUpTo({"h", " ", "/"}, MaxUrlLen) \cup {<<"http://localhost:5173">>}


NoResetRequest == [key |-> <<>>, login |-> <<>>, sent |-> FALSE]

\* add_query_arg(array('key' => ..., 'login' => ...), $url) for a URL without a
\* query: the values are appended as given
add_query_arg(key, login, url) ==
  url \o <<"?", "key", "=">> \o key \o <<"&", "login", "=">> \o login

RECURSIVE esc_url(_)
\* esc_url for display: blanks are dropped and & is written &#038;
esc_url(url) ==
  IF url = <<>> THEN <<>>
  ELSE (CASE Head(url) = "&" -> <<"&#038;">>
          [] Head(url) = " " -> <<>>
          [] OTHER -> <<Head(url)>>) \o esc_url(Tail(url))

\* the customer-reset-password template: $reset_link and the href of its link
customer_reset_password(reset_key, user_login) ==
  LET frontend_url == <<"http://localhost:5173", "/reset-password">>
      reset_link == add_query_arg(reset_key, rawurlencode(user_login), frontend_url)
  IN [sent |-> TRUE, key |-> reset_key, login |-> user_login,
      reset_link |-> reset_link, href |-> esc_url(reset_link)]

NoWcMail == [sent |-> FALSE, key |-> <<>>, login |-> <<>>, reset_link |-> <<>>, href |-> <<>>]

HrlIdle ==
  /\ hrlConfig = [constant |-> HrlUndefined, option |-> <<>>, home |-> <<"w">>]
  /\ hrlRequest = NoResetRequest
  /\ hrlUrl = <<>>
  /\ hrlMessage = <<>>
  /\ wcMail = NoWcMail

HrlInstalled(cfg) ==
  /\ hrlConfig = cfg
  /\ hrlRequest = NoResetRequest
  /\ hrlUrl = <<>>
  /\ hrlMessage = <<>>
  /\ wcMail = NoWcMail

\* the request that built the mail ends
mailSent ==
  /\ hrlRequest.sent \/ wcMail.sent
  /\ hrlRequest' = NoResetRequest
  /\ hrlUrl' = <<>>
  /\ hrlMessage' = <<>>
  /\ wcMail' = NoWcMail
  /\ UNCHANGED hrlConfig
  /\ UNCHANGED nonHrlVars

\* WordPress builds a password-reset mail: both filters run for the same key
\* and login
retrievePassword ==
  /\ ~hrlRequest.sent /\ ~wcMail.sent
  /\ \E key \in {<<"K", "9">>},
        user_login \in {<<"a", "b">>, <<"a", " ", "b">>, <<"a", "&", "@">>} :
       /\ hrlRequest' = [key |-> key, login |-> user_login, sent |-> TRUE]
       /\ hrlUrl' = retrieve_password_url(hrlConfig, key, user_login)
       /\ hrlMessage' = retrieve_password_message(hrlConfig, key, user_login)
  /\ UNCHANGED <<hrlConfig, wcMail>>
  /\ UNCHANGED nonHrlVars

\* WooCommerce renders its customer-reset-password mail from the template
customerResetPassword ==
  /\ ~hrlRequest.sent /\ ~wcMail.sent
  /\ \E key \in {<<"K", "9">>},
        user_login \in {<<"a", "b">>, <<"a", " ", "b">>, <<"a", "&", "@">>} :
       wcMail' = customer_reset_password(key, user_login)
  /\ UNCHANGED <<hrlConfig, hrlRequest, hrlUrl, hrlMessage>>
  /\ UNCHANGED nonHrlVars

NextReset ==
  \/ retrievePassword
  \/ customerResetPassword
  \/ mailSent

(***************************************************************************)
(* Checkout: placeOrder; OrderConfirmation: the order query                *)
(***************************************************************************)
\* the letters typed into a field are not more than this
MaxFieldLen == 1
\* checkout mutations are not counted beyond this
MaxInFlight == 2

RequiredFields == {"full_name", "phone", "address1", "city", "country"}
FieldStrings == StringsUpTo({"a", " "}, MaxFieldLen)

\* str.split(" "): the part before the first blank, and the parts after it
\* joined with " " again
RECURSIVE FirstWord(_)
FirstWord(str) ==
  IF str = <<>> \/ Head(str) = " " THEN <<>> ELSE <<Head(str)>> \o FirstWord(Tail(str))

AfterFirstWord(str) ==
  IF Len(FirstWord(str)) = Len(str) THEN <<>>
  ELSE SubSeq(str, Len(FirstWord(str)) + 2, Len(str))

\* normalizeShipping(s), without the optional address2
normalizeShipping(s) ==
  [firstName |-> FirstWord(s.full_name),
   lastName |-> AfterFirstWord(s.full_name),
   phone |-> trim(s.phone),
   address1 |-> trim(s.address1),
   city |-> trim(s.city),
   country |-> trim(s.country)]

\* validateForm(s): !s.full_name || !s.phone || ... is false
validateForm(s) == \A f \in RequiredFields : s[f] # <<>>

\* the orders a checkout answers with: none, or an order with its global id and
\* its databaseId (0: the answer has no truthy databaseId)
NoOrder == [databaseId |-> 0, id |-> ""]
CreatedOrders == {NoOrder} \cup [databaseId : {0, 7}, id : {"b3JkZXI6Nw=="}]

\* const orderId = created?.databaseId || created?.id || null, as it appears in
\* the path `/order-confirmation/${orderId}` (Undefined: the path has no id)
orderId(created) ==
  IF created.databaseId # 0 THEN ToString(created.databaseId)
  ELSE IF created.id # "" THEN created.id
  ELSE Undefined

\* const dbId = Number(id) for the ids of the model: 0 stands for 0 and for NaN,
\* which `skip: !dbId` does not tell apart
dbId(id) ==
  IF \E n \in 1..9 : ToString(n) = id
  THEN CHOOSE n \in 1..9 : ToString(n) = id
  ELSE 0

NoOrderQuery == [state |-> "unmounted", id |-> ""]

\* OrderConfirmation mounts on the path's id: the query runs unless skip: !dbId
OrderConfirmationMounted(id) ==
  IF dbId(id) = 0 THEN [state |-> "skipped", id |-> ""]
  ELSE [state |-> "loading", id |-> ToString(dbId(id))]

\* what OrderConfirmation renders
OrderConfirmationView ==
  CASE orderQuery.state = "loading" -> "Loading receipt"
    [] orderQuery.state = "found" -> "receipt"
    [] orderQuery.state \in {"skipped", "notFound"} -> "Order not found"
    [] OTHER -> "none"

NoCheckoutStep == [step |-> "none", created |-> NoOrder]

CheckoutIdle ==
  /\ shipping = [f \in RequiredFields |-> <<>>]
  /\ checkoutError = ""
  /\ checkingOut = FALSE
  /\ checkoutInFlight = <<>>
  /\ route = "checkout"
  /\ routeId = Undefined
  /\ orderQuery = NoOrderQuery
  /\ lastCheckout = NoCheckoutStep

\* the Checkout page with its form filled in
CheckoutMounted(s) ==
  /\ shipping = s
  /\ checkoutError = ""
  /\ checkingOut = FALSE
  /\ checkoutInFlight = <<>>
  /\ route = "checkout"
  /\ routeId = Undefined
  /\ orderQuery = NoOrderQuery
  /\ lastCheckout = NoCheckoutStep

placeOrder_NoPendingTest ==
  /\ route = "checkout"
  /\ IF FALSE
     THEN /\ lastCheckout' = [step |-> "ignored", created |-> NoOrder]
          /\ UNCHANGED <<checkoutError, checkingOut, checkoutInFlight>>
     ELSE IF ~validateForm(shipping)
     THEN /\ checkoutError' = "Please complete your shipping details."
          /\ lastCheckout' = [step |-> "invalid", created |-> NoOrder]
          /\ UNCHANGED <<checkingOut, checkoutInFlight>>
     ELSE /\ Len(checkoutInFlight) < MaxInFlight
          /\ checkoutError' = ""
          /\ checkingOut' = TRUE
          /\ checkoutInFlight' = Append(checkoutInFlight, normalizeShipping(shipping))
          /\ lastCheckout' = [step |-> "sent", created |-> NoOrder]
  /\ UNCHANGED <<shipping, route, routeId, orderQuery>>
  /\ UNCHANGED nonCheckoutVars

\* placeOrder up to `await checkout(...)`
placeOrder ==
  /\ route = "checkout"
  /\ IF checkingOut
     THEN /\ lastCheckout' = [step |-> "ignored", created |-> NoOrder]
          /\ UNCHANGED <<checkoutError, checkingOut, checkoutInFlight>>
     ELSE IF ~validateForm(shipping)
     THEN /\ checkoutError' = "Please complete your shipping details."
          /\ lastCheckout' = [step |-> "invalid", created |-> NoOrder]
          /\ UNCHANGED <<checkingOut, checkoutInFlight>>
     ELSE /\ Len(checkoutInFlight) < MaxInFlight
          /\ checkoutError' = ""
          /\ checkingOut' = TRUE
          /\ checkoutInFlight' = Append(checkoutInFlight, normalizeShipping(shipping))
          /\ lastCheckout' = [step |-> "sent", created |-> NoOrder]
  /\ UNCHANGED <<shipping, route, routeId, orderQuery>>
  /\ UNCHANGED nonCheckoutVars

\* the oldest checkout mutation settles and placeOrder runs to its end: rejected
\* (catch: setError), or answered: toast, navigate to the confirmation path,
\* where OrderConfirmation mounts
checkoutSettled ==
  /\ route = "checkout"
  /\ checkoutInFlight # <<>>
  /\ checkoutInFlight' = Tail(checkoutInFlight)
  /\ checkingOut' = IF Tail(checkoutInFlight) = <<>> THEN FALSE ELSE checkingOut
  /\ \/ /\ checkoutError' = "Failed to place order."
        /\ lastCheckout' = [step |-> "failed", created |-> NoOrder]
        /\ UNCHANGED <<route, routeId, orderQuery>>
     \/ \E created \in CreatedOrders :
          /\ route' = "order-confirmation"
          /\ routeId' = orderId(created)
          /\ orderQuery' = OrderConfirmationMounted(orderId(created))
          /\ lastCheckout' = [step |-> "placed", created |-> created]
          /\ UNCHANGED checkoutError
  /\ UNCHANGED shipping
  /\ UNCHANGED nonCheckoutVars

\* GET_ORDER_BY_DBID is answered, with the order or without one
orderQuerySettled ==
  /\ route = "order-confirmation"
  /\ orderQuery.state = "loading"
  /\ \E found \in BOOLEAN :
       orderQuery' = [orderQuery EXCEPT !.state = IF found THEN "found" ELSE "notFound"]
  /\ UNCHANGED <<shipping, checkoutError, checkingOut, checkoutInFlight, route, routeId,
                 lastCheckout>>
  /\ UNCHANGED nonCheckoutVars

NextCheckout ==
  \/ placeOrder
  \/ checkoutSettled
  \/ orderQuerySettled

(***************************************************************************)
(* Specifications: one per part of the repository; the parts that a        *)
(* specification does not exercise rest in one of their initial states     *)
(***************************************************************************)
InitList ==
  /\ (\E c \in (StackPages \cup {"LatestOffers"}) : ListMounted(c))
  /\ AuthStarted(Absent)
  /\ AddIdle
  /\ CartIdle
  /\ PriceIdle
  /\ BootIdle
  /\ HrlIdle
  /\ CheckoutIdle
SpecList == InitList /\ [][NextList]_vars

InitAuth ==
  /\ ListMounted("Smartphones")
  /\ (\E v \in StoredValues : AuthStarted(v))
  /\ AddIdle
  /\ CartIdle
  /\ PriceIdle
  /\ BootIdle
  /\ HrlIdle
  /\ CheckoutIdle
SpecAuth == InitAuth /\ [][NextAuth]_vars

InitAdd ==
  /\ ListMounted("Smartphones")
  /\ \E v \in {Absent, Stored("object", "t1", "r1", "alice")} : AuthStarted(v)
  /\ AddIdle
  /\ CartIdle
  /\ PriceIdle
  /\ BootIdle
  /\ HrlIdle
  /\ CheckoutIdle
SpecAdd == InitAdd /\ [][NextAdd]_vars

\* Header's badge under cart-updated events, logged in or not, and logout
SpecBadge == InitAdd /\ [][NextBadge]_vars

InitCart ==
  /\ ListMounted("Smartphones")
  /\ AuthStarted(Stored("object", "t1", "r1", "alice"))
  /\ AddIdle
  /\ \E cart \in [Keys -> 0..MaxQty] : CartMounted(cart)
  /\ PriceIdle
  /\ BootIdle
  /\ HrlIdle
  /\ CheckoutIdle
SpecCart == InitCart /\ [][NextCart]_vars

\* every request of a running handler call settles, answered or rejected
SpecCartFair ==
  /\ SpecCart
  /\ \A h \in Handlers :
       WF_vars((cartMutationSettled \/ cartRefetchSettled) /\ lastCart'.h = h)


InitPrice ==
  /\ ListMounted("Smartphones")
  /\ AuthStarted(Absent)
  /\ AddIdle
  /\ CartIdle
  /\ PriceIdle
  /\ BootIdle
  /\ HrlIdle
  /\ CheckoutIdle
SpecPrice == InitPrice /\ [][NextPrice]_vars


InitBoot ==
  /\ ListMounted("Smartphones")
  /\ AuthStarted(Absent)
  /\ AddIdle
  /\ CartIdle
  /\ PriceIdle
  \* which variables are set: WORDPRESS_DB_HOST, the other WORDPRESS_DB_*,
  \* WP_HOME, WP_SITEURL, and the slugs of WP_PLUGINS; an installed WordPress
  \* has its wp-config.php
  /\ \E env \in [dbHost : BOOLEAN, dbVars : BOOLEAN, home : BOOLEAN, siteurl : BOOLEAN,
                 plugins : {<<>>, <<"woocommerce">>, <<"woocommerce", "wp-graphql">>}],
        world \in {w \in [dbUp : BOOLEAN, config : BOOLEAN, installed : BOOLEAN] :
                     w.installed => w.config} :
       BootStarted(env, world)
  /\ HrlIdle
  /\ CheckoutIdle
SpecBoot == InitBoot /\ [][NextBoot]_vars


InitReset ==
  /\ ListMounted("Smartphones")
  /\ AuthStarted(Absent)
  /\ AddIdle
  /\ CartIdle
  /\ PriceIdle
  /\ BootIdle
  /\ \E cfg \in [constant : UrlStrings \cup {HrlUndefined}, option : UrlStrings,
                 home : {<<"w">>}] :
       HrlInstalled(cfg)
  /\ CheckoutIdle
SpecReset == InitReset /\ [][NextReset]_vars

InitCheckout ==
  /\ ListMounted("Smartphones")
  /\ AuthStarted(Stored("object", "t1", "r1", "alice"))
  /\ AddIdle
  /\ CartIdle
  /\ PriceIdle
  /\ BootIdle
  /\ HrlIdle
  /\ \E s \in [RequiredFields -> FieldStrings] : CheckoutMounted(s)
SpecCheckout == InitCheckout /\ [][NextCheckout]_vars


(***************************************************************************)
(* Claims about the list pages (checked under SpecList)                    *)
(***************************************************************************)

\* C1: on a cursor-stack page, after k >= 1 successful Next presses from page 1
\* followed by one Previous press, the page number is k and every products
\* request that Previous issues carries the `after` cursor that produced page k
\* (null for page 1, otherwise the endCursor recorded when page k-1 was left).
C1_NextThenPrevReturns ==
  (component \in StackPages /\ lastOp = "goPrev" /\ prevStreak >= 1) =>
    /\ page = prevStreak
    /\ lastReqs # {}
    /\ \A r \in lastReqs : r.after = origAfter[prevStreak]
    /\ (prevStreak = 1 => \A r \in lastReqs : r.after = Null)

C1_Witness ==
  /\ component \in StackPages
  /\ lastOp = "goPrev"
  /\ prevStreak = 2
  /\ page = 2
  /\ origAfter[2] = "c1"

\* C2 (as claimed): on LatestOffers, Previous on page p > 1 leads to page p-1,
\* re-requested with the cursor that produced page p-1.
C2_Original ==
  (component = "LatestOffers" /\ lastOp = "goPrev" /\ prevPage > 1) =>
    /\ page = prevPage - 1
    /\ \A r \in lastReqs : r.after = origAfter[prevPage - 1]

\* C2 (amended): on LatestOffers, Previous on any page p > 1 jumps back to page 1:
\* the page number becomes 1, the `after` state becomes null and the products
\* query is re-requested with after = null.
C2_PrevJumpsToFirst ==
  (component = "LatestOffers" /\ lastOp = "goPrev" /\ prevPage > 1) =>
    /\ page = 1
    /\ after = Null
    /\ lastReqs # {}
    /\ \A r \in lastReqs : r.after = Null

C2_Witness ==
  /\ component = "LatestOffers"
  /\ lastOp = "goPrev"
  /\ prevPage = 3
  /\ page = 1

\* the orderby pair the claim's table gives for a sort option
C7_Table(o) ==
  CASE o = "created_at" -> <<"DATE", "ASC">>
    [] o = "-created_at" -> <<"DATE", "DESC">>
    [] o = "name" -> <<"TITLE", "ASC">>
    [] o = "-name" -> <<"TITLE", "DESC">>
    [] o \in {"price_min_ksh", "price_low"} -> <<"PRICE", "ASC">>
    [] o \in {"-price_min_ksh", "price_high"} -> <<"PRICE", "DESC">>
    [] OTHER -> <<"DATE", "DESC">>

\* the amended table: NewIphones' own price options are mapped as well
C7_AmendedTable(o) ==
  CASE o = "new_price_ksh" -> <<"PRICE", "ASC">>
    [] o = "-new_price_ksh" -> <<"PRICE", "DESC">>
    [] OTHER -> C7_Table(o)

C7_PairOf(c, o) == <<OrderVars(c, o).field, OrderVars(c, o).order>>

\* C7 (as claimed): every sort option a cursor-stack page offers is mapped by the
\* claim's table, every value the table does not list going to (DATE, DESC).
C7_Original ==
  component \in StackPages =>
    /\ C7_PairOf(component, ordering) = C7_Table(ordering)
    /\ \A r \in lastReqs : <<r.orderbyField, r.order>> = C7_Table(ordering)

\* C7 (amended): as claimed, and on NewIphones new_price_ksh -> (PRICE, ASC) and
\* -new_price_ksh -> (PRICE, DESC); the pair is always in {DATE, TITLE, PRICE} x
\* {ASC, DESC} and is the pair the page's products requests carry.
C7_OrderingMapped ==
  component \in StackPages =>
    /\ C7_PairOf(component, ordering) = C7_AmendedTable(ordering)
    /\ \A r \in lastReqs : <<r.orderbyField, r.order>> = C7_AmendedTable(ordering)
    /\ C7_PairOf(component, ordering) \in {"DATE", "TITLE", "PRICE"} \X {"ASC", "DESC"}

C7_Witness ==
  /\ component = "Smartphones"
  /\ ordering = "-price_min_ksh"
  /\ lastOp = "reset"
  /\ \E r \in lastReqs : r.orderbyField = "PRICE" /\ r.order = "DESC"

(***************************************************************************)
(* Claims about the Apollo auth link, LoginForm and Header (SpecAuth)      *)
(***************************************************************************)

\* the claim's reading of the stored string: parseable JSON holding a non-empty
\* authToken
C3_HoldsToken(raw) ==
  /\ raw.kind \in {"jsonnull", "object"}
  /\ raw.authToken \notin {Undefined, Null, ""}

\* C3: every request the shared client sends carries Authorization: Bearer t if
\* and only if, when it is sent, the key holds parseable JSON with a non-empty
\* authToken t; otherwise it carries no Authorization header.  The token is read
\* per request: a request sent while the key is absent (after logout) carries no
\* token, and one sent while it holds a login's write carries that login's token.
C3_BearerIffStoredToken ==
  lastRequest.op # "none" =>
    /\ C3_HoldsToken(lastRequest.storageAtSend) =>
         lastRequest.Authorization =
           [scheme |-> "Bearer", token |-> lastRequest.storageAtSend.authToken]
    /\ ~C3_HoldsToken(lastRequest.storageAtSend) =>
         lastRequest.Authorization = NoAuthorization
    /\ authOp = "send" => lastRequest.storageAtSend = wpjwt

C3_Witness ==
  /\ authOp = "send"
  /\ wpjwt = Absent
  /\ ~isAuthed
  /\ payload.authToken = "t1"
  /\ lastRequest.Authorization = NoAuthorization

\* C4: on a successful login the key holds {authToken, refreshToken, user} of the
\* answer before auth-changed is dispatched, so when Header has handled
\* auth-changed its isAuthed is true and its user is the logged-in user; the same
\* holds when Header has handled a storage event for a login's write that the key
\* still holds.
C4_WrittenBeforeDispatch ==
  /\ loginPc \in {"written", "dispatched"} =>
       /\ wpjwt = Stored("object", payload.authToken, payload.refreshToken, payload.user)
       /\ payload.authToken \in Tokens
  /\ loginPc = "dispatched" =>
       /\ isAuthed
       /\ user = payload.user
  /\ (/\ authOp = "onStorage"
      /\ storageEvent.key = "wpjwt"
      /\ storageEvent.login
      /\ wpjwt = storageEvent.written) =>
       /\ isAuthed
       /\ user = storageEvent.written.user

C4_Witness ==
  /\ loginPc = "dispatched"
  /\ payload.user = "bob"
  /\ user = "bob"
  /\ isAuthed
(***************************************************************************)
(* Claims about add to cart (SpecAdd)                                      *)
(***************************************************************************)

\* C5: when an addToCart mutation fails, the failing call shows exactly one error
\* toast and no success toast, dispatches no cart-updated event (the badge is as
\* it was), has sent the mutation once and not again, and leaves the item's
\* adding flag cleared, so that its button is enabled again.
C5_FailureCaughtOnce ==
  lastAdd.outcome = "failed" =>
    /\ calls[lastAdd.item].errorToasts = 1
    /\ calls[lastAdd.item].successToasts = 0
    /\ calls[lastAdd.item].events = 0
    /\ calls[lastAdd.item].sent = 1
    /\ cartCount = lastAdd.badgeBefore
    /\ ~addingMap[lastAdd.item]
    /\ lastAdd.item \notin awaiting

C5_Witness ==
  /\ lastAdd.outcome = "failed"
  /\ lastAdd.item = "p1"
  /\ cartCount = 1
  /\ addingMap["p2"]

(***************************************************************************)
(* Claims about the Cart page (SpecCart)                                   *)
(***************************************************************************)

\* C6 (as claimed): when an updateItemQuantities or removeItemsFromCart mutation
\* of the Cart page fails, the error is caught for that request and shown to
\* the user in a toast notification.
C6_FailureToasted ==
  lastCart.step = "mutationFailed" =>
    /\ ops[lastCart.h].pc = "refetchCatch"
    /\ ops[lastCart.h].toasts >= 1

(***************************************************************************)
(* Claims about price normalisation (SpecPrice)                            *)
(***************************************************************************)
C8_NonEmpty(x) == x # PNull /\ x # <<>>

\* the first non-empty of salePrice, price, regularPrice
C8_First(n) ==
  IF C8_NonEmpty(n.salePrice) THEN n.salePrice
  ELSE IF C8_NonEmpty(n.price) THEN n.price
  ELSE n.regularPrice

C8_AllEmpty(n) ==
  ~C8_NonEmpty(n.salePrice) /\ ~C8_NonEmpty(n.price) /\ ~C8_NonEmpty(n.regularPrice)

C8_HasDigit(str) == \E i \in 1..Len(str) : IsDigit(str[i])

\* C8: for every product node each page derives the current price from the
\* first non-empty of salePrice, price, regularPrice (in that order); an old
\* (crossed-out) price is present only when onSale is true and regularPrice is
\* non-empty; when all three fields are empty the price text is empty or the
\* page's placeholder and holds no number.
C8_PriceNormalized ==
  priceView.shown =>
    LET n == priceNode
        first == C8_First(n)
        sm == priceView.Smartphones
        lo == priceView.LatestOffers
        dv == priceView.Detail
    IN /\ ~C8_AllEmpty(n) =>
            /\ sm.price_min_ksh = toNumber(first)
            /\ sm.price_display =
                 (IF toNumber(first).kind = "num"
                  THEN toLocaleString(toNumber(first)) \o KSh ELSE <<>>)
            /\ lo.price_display = LatestOffers_money(first)
            /\ dv.priceText = money(first)
       /\ sm.price_max_ksh.kind = "num" => n.onSale /\ C8_NonEmpty(n.regularPrice)
       /\ lo.oldShown => n.onSale /\ C8_NonEmpty(n.regularPrice)
       /\ dv.oldShown => n.onSale /\ C8_NonEmpty(n.regularPrice)
       /\ C8_AllEmpty(n) =>
            /\ sm.price_display = <<>> /\ sm.text = KSh
            /\ lo.price_display = <<>> /\ lo.text = <<"Price unavailable">>
            /\ dv.priceText = <<>> /\ dv.text = <<"-">>
            /\ ~C8_HasDigit(sm.text)
            /\ ~sm.price_max_ksh.kind = "num" /\ ~lo.oldShown /\ ~dv.oldShown

C8_Witness ==
  /\ priceView.shown
  /\ priceNode.salePrice = <<>>
  /\ priceNode.price = <<"K", " ", "1", ",", "5", "0", "0">>
  /\ priceNode.regularPrice = <<"1", "2", "0", "0">>
  /\ priceNode.onSale
  /\ priceView.Smartphones.price_display = <<"1", ",", "5", "0", "0", " ", "K", "S", "h">>
  /\ priceView.Smartphones.price_max_ksh = Num(1200000)
  /\ priceView.LatestOffers.price_display = priceNode.price
  /\ priceView.LatestOffers.old_price_ksh = <<"1", ",", "2", "0", "0">>
  /\ priceView.Detail.priceText = <<"K", "s", "h", " ", "1", ",", "5", "0", "0">>

(***************************************************************************)
(* Claims about docker-entrypoint-custom.sh (SpecBoot)                     *)
(***************************************************************************)
C9_Index(cmd) == {i \in 1..Len(bootLog) : bootLog[i].cmd = cmd}
C9_Ended == bootPc \in {"handedOff", "aborted"}

\* C9: the script's steps run in a fixed order: nothing but the probe runs
\* before a probe of the database succeeded; `wp config create` and `wp core
\* install` have run, when the script ends, if and only if `wp core
\* is-installed` failed; a plugin's activation is attempted if and only if
\* `wp plugin is-installed <slug>` succeeded; and the exec hand-off is the last
\* step.
C9_FixedOrder ==
  /\ \A i \in 1..Len(bootLog) :
       bootLog[i].cmd # "probe" =>
         \E j \in 1..(i - 1) : bootLog[j].cmd = "probe" /\ bootLog[j].ok
  /\ C9_Ended =>
       LET notInstalled == \E i \in C9_Index("core is-installed") : ~bootLog[i].ok
       IN /\ (C9_Index("config create") # {}) <=> notInstalled
          /\ (C9_Index("core install") # {}) <=> notInstalled
  /\ \A i \in C9_Index("plugin is-installed") :
       bootLog[i].ok <=>
         /\ i < Len(bootLog)
         /\ bootLog[i + 1].cmd = "plugin activate"
         /\ bootLog[i + 1].arg = bootLog[i].arg
  /\ \A i \in C9_Index("plugin activate") :
       /\ i > 1
       /\ bootLog[i - 1] = Ran("plugin is-installed", bootLog[i].arg, TRUE)
  /\ \A i \in C9_Index("exec") : i = Len(bootLog) /\ bootPc = "handedOff"

(***************************************************************************)
(* Claims about the Headless Reset Link plugin (SpecReset)                 *)
(***************************************************************************)
\* the configured value the claim selects: the constant when defined and
\* non-empty, otherwise the option when non-empty, otherwise home_url()
C10_Selected(cfg) ==
  IF cfg.constant # HrlUndefined /\ cfg.constant # <<>> THEN cfg.constant
  ELSE IF cfg.option # <<>> THEN cfg.option
  ELSE cfg.home

C10_Blank(str) == \A i \in 1..Len(str) : str[i] = " "
C10_Slashes(str) == \A i \in 1..Len(str) : str[i] = "/"

\* base is sel without its surrounding blanks and, then, its trailing slashes
C10_IsBase(sel, base) ==
  \E i \in 0..Len(sel), j \in 0..Len(sel), k \in 0..Len(sel) :
    /\ i <= j /\ j <= k
    /\ C10_Blank(SubSeq(sel, 1, i))
    /\ base = SubSeq(sel, i + 1, j)
    /\ C10_Slashes(SubSeq(sel, j + 1, k))
    /\ C10_Blank(SubSeq(sel, k + 1, Len(sel)))
    /\ (i < k => sel[i + 1] # " " /\ sel[k] # " ")
    /\ (i < j => sel[j] # "/")

RECURSIVE C10_Decode(_)
C10_Decode(str) ==
  IF str = <<>> THEN <<>>
  ELSE IF Head(str) = "%" /\ Len(str) >= 3
       THEN LET code == SubSeq(str, 1, 3)
                ch == CHOOSE c \in {" ", "&", "@", "/", "=", "%"} : PercentCode(c) = code
            IN <<ch>> \o C10_Decode(SubSeq(str, 4, Len(str)))
       ELSE <<Head(str)>> \o C10_Decode(Tail(str))

\* url is <base>/reset-password?key=<key>&login=<login>, key and login encoded
C10_IsResetUrl(url, cfg, key, login) ==
  \E p \in 1..Len(url), q \in 1..Len(url) :
    /\ p + 3 < q /\ q + 2 <= Len(url)
    /\ C10_IsBase(C10_Selected(cfg), SubSeq(url, 1, p - 1))
    /\ SubSeq(url, p, p + 3) = <<"/reset-password", "?", "key", "=">>
    /\ SubSeq(url, q, q + 2) = <<"&", "login", "=">>
    /\ C10_Decode(SubSeq(url, p + 4, q - 1)) = key
    /\ C10_Decode(SubSeq(url, q + 3, Len(url))) = login
    /\ \A i \in (p + 4)..Len(url) : i # q => url[i] \notin {"&", " ", "?"}

RECURSIVE C11_HtmlDecode(_)
\* the URL a mail reader follows for an href
C11_HtmlDecode(href) ==
  IF href = <<>> THEN <<>>
  ELSE (IF Head(href) = "&#038;" THEN <<"&">> ELSE <<Head(href)>>)
       \o C11_HtmlDecode(Tail(href))

\* C11: the link of WooCommerce's customer-reset-password mail is the link the
\* Headless Reset Link plugin builds for the same key and login: the configured
\* frontend URL followed by /reset-password?key=<key>&login=<login>.
C11_SameResetLink ==
  wcMail.sent =>
    C11_HtmlDecode(wcMail.href)
      = hrl_build_frontend_reset_url(hrlConfig, wcMail.key, wcMail.login)

(***************************************************************************)
(* More claims about the list pages (SpecList)                             *)
(***************************************************************************)

\* C12: on a cursor-stack page every reachable state has page >= 1,
\* endCursorStack[0] null and page <= length of endCursorStack, so that
\* endCursorStack[page-1] is a recorded entry; a goNext call while hasNextPage
\* is false and a goPrev call on page 1 change neither the page nor the stack
\* and send no request.
C12_PagingInvariants ==
  /\ [](component \in StackPages =>
          /\ page >= 1
          /\ Len(endCursorStack) >= 1
          /\ endCursorStack[1] = Null
          /\ page <= Len(endCursorStack)
          /\ ArrayGet(endCursorStack, page - 1) # Undefined)
  /\ [][(component \in StackPages /\ ~hasNext /\ lastOp' \in {"goNext", "goNext-noop"}) =>
          (page' = page /\ endCursorStack' = endCursorStack /\ lastReqs' = {})]_vars
  /\ [][(component \in StackPages /\ page = 1 /\ lastOp' \in {"goPrev", "goPrev-noop"}) =>
          (page' = page /\ endCursorStack' = endCursorStack /\ lastReqs' = {})]_vars

C12_Witness ==
  /\ component \in StackPages
  /\ lastOp = "goNext-noop"
  /\ page = 2
  /\ Len(endCursorStack) = 3
  /\ data.loaded /\ ~data.hasNextPage

\* C13: on Smartphones and Mkopa (the same effect as on Audio, Televisions,
\* Reallaptops and MobileAccessories) every change of the filter, the search text
\* or the ordering puts the page back to 1 and the cursor stack back to [null] and
\* re-requests the first page: a refetch with after = null and the new search and
\* order variables, and no request with another cursor
C13_ResetToFirstPage ==
  [][(component \in {"Smartphones", "Mkopa"}
        /\ (filter' # filter \/ search' # search \/ ordering' # ordering)) =>
       /\ page' = 1
       /\ endCursorStack' = <<Null>>
       /\ Request("refetch", component, Null, search', ordering') \in lastReqs'
       /\ \A r \in lastReqs' : r.after = Null]_vars

C13_Witness ==
  /\ component = "Smartphones"
  /\ lastOp = "reset"
  /\ prevPage = 3
  /\ page = 1
  /\ endCursorStack = <<Null>>
  /\ search = "tecno"

\* C14: on BudgetSmartphoneDeals every change of a filter (brand or badge), of the
\* search text or of the ordering puts the page back to 1 and the cursor stack
\* back to [null] and re-requests the first page
C14_BudgetResetOnAnyChange ==
  [][(component = "BudgetSmartphoneDeals"
        /\ (filter' # filter \/ search' # search \/ ordering' # ordering)) =>
       /\ page' = 1
       /\ endCursorStack' = <<Null>>
       /\ Request("refetch", component, Null, search', ordering') \in lastReqs']_vars
\* C15: no list page sends an addToCart mutation for an item whose databaseId is
\* null or absent (the click only shows the error toast), and every addToCart
\* request carries the item's integer databaseId as productId
C15_NoRequestWithoutDatabaseId ==
  /\ (lastAdd.outcome \in {"sent", "unavailable"} /\ Falsy(databaseId(lastAdd.item))) =>
       /\ lastAdd.outcome = "unavailable"
       /\ calls[lastAdd.item].sent = 0
       /\ calls[lastAdd.item].errorToasts = 1
  /\ lastAdd.outcome = "sent" =>
       /\ lastAdd.productId = databaseId(lastAdd.item)
       /\ lastAdd.productId \notin GlobalIds \cup {Null, Undefined}
\* the sum of the quantities of the first n items of a detail.items array
RECURSIVE C16_Sum(_, _)
C16_Sum(items, n) ==
  IF n = 0 THEN 0
  ELSE C16_Sum(items, n - 1)
         + (IF "quantity" \in DOMAIN items[n] THEN items[n].quantity
            ELSE IF "qty" \in DOMAIN items[n] THEN items[n].qty ELSE 0)

\* this step is Header's listener handling an event (the only other step that
\* changes cartEvent ends a refetch; an event that changes nothing at all, the
\* badge included, is a stuttering step)
C16_EventStep ==
  cartEvent' # cartEvent /\ (cartEvent.refetching => cartEvent'.refetching)

\* C16: Header's cart-updated listener sets the badge to detail.count when that is
\* a number; otherwise to the sum of the quantities of detail.items when that is
\* an array; otherwise to max(0, badge + detail.delta) when that is a number;
\* otherwise it leaves the badge and refetches the count, and that only when the
\* user is authenticated. The badge is never negative.
C16_BadgeFromEvent ==
  /\ [](cartCount >= 0)
  /\ [][C16_EventStep =>
         LET d == cartEvent'.detail
             refetch == DOMAIN d \cap {"count", "items", "delta"} = {} /\ isAuthed
         IN /\ cartCount' =
                 (IF "count" \in DOMAIN d THEN d.count
                  ELSE IF "items" \in DOMAIN d THEN C16_Sum(d.items, Len(d.items))
                  ELSE IF "delta" \in DOMAIN d
                       THEN (IF cartCount + d.delta < 0 THEN 0 ELSE cartCount + d.delta)
                       ELSE cartCount)
            /\ cartEvent'.refetched = refetch
            /\ IF refetch THEN lastRequest'.op = "GetCartCount"
               ELSE lastRequest' = lastRequest]_vars

C16_Witness ==
  /\ cartEvent.detail = DeltaDetail(-2)
  /\ cartEvent.badgeBefore = 1
  /\ cartCount = 0
\* C17: whenever local storage holds no auth token, Header's cart badge shows 0
C17_BadgeZeroWithoutToken ==
  ~Boolean(getAccessToken(wpjwt)) => cartCount = 0
\* a handler call between its click and its finally block
C18_Running(o) == o.pc \in {"mutating", "refetchTry", "refetchCatch"}

\* C18: onDec never sends a quantity of 0 or less: on a line whose quantity is 1
\* or less it sends removeItemsFromCart for the key, otherwise updateItemQuantities
\* with quantity - 1; onInc always sends updateItemQuantities with quantity + 1
C18_DecNeverSendsZero ==
  /\ [](\A h \in Handlers :
          (ops[h].pc = "mutating" /\ ops[h].op = "updateItemQuantities") =>
            ops[h].quantity >= 1)
  /\ [][\A h \in Handlers :
          (ops'[h].pc = "mutating" /\ ops[h].pc # "mutating") =>
            LET o == ops'[h]
                qty == cartData[o.key]
            IN /\ lastRequest'.op = o.op
               /\ o.kind = "onDec" =>
                    IF qty <= 1
                    THEN o.op = "removeItemsFromCart"
                    ELSE o.op = "updateItemQuantities" /\ o.quantity = qty - 1
               /\ o.kind = "onInc" =>
                    o.op = "updateItemQuantities" /\ o.quantity = qty + 1]_vars

C18_Witness ==
  \E h \in Handlers :
    /\ ops[h].pc = "mutating"
    /\ ops[h].kind = "onDec"
    /\ ops[h].op = "removeItemsFromCart"
    /\ cartData[ops[h].key] = 1

\* C19: for every onInc, onDec or onRemove call, whether its mutation succeeds or
\* fails: busyKeys[key] is true while the call runs, a refetch is issued when the
\* mutation settles, and busyKeys[key] is set back to false in the end (at every
\* moment busyKeys[key] is false or will be false later)
C19_BusyClearedInTheEnd ==
  /\ [](\A h \in Handlers : C18_Running(ops[h]) => busyKeys[ops[h].key])
  /\ [][\A h \in Handlers :
          (ops[h].pc = "mutating" /\ ops'[h].pc # "mutating") =>
            /\ ops'[h].pc \in {"refetchTry", "refetchCatch"}
            /\ ops'[h].refetches = ops[h].refetches + 1]_vars
  /\ \A key \in Keys : []<>(~busyKeys[key])

C19_Witness ==
  /\ lastCart.step = "refetchRejected"
  /\ ops[lastCart.h].pc = "done"
  /\ ops[lastCart.h].consoleErrors = 1
  /\ ops[lastCart.h].refetches = 2
  /\ ~busyKeys[ops[lastCart.h].key]

\* C20: at most one quantity or removal call per line key is in progress at a
\* time: the row is busy from the click until the call's finally block, every row
\* is busy while an update or remove mutation is in flight, and a click computes
\* its quantity from a line that no unfinished call is changing
C20_OneOperationPerKey ==
  /\ [](\A h, g \in Handlers :
          (h # g /\ C18_Running(ops[h]) /\ C18_Running(ops[g])) =>
            ops[h].key # ops[g].key)
  /\ [](\A h \in Handlers : C18_Running(ops[h]) => RowBusy(ops[h].key))
  /\ [](\A h \in Handlers : ops[h].pc = "mutating" => \A key \in Keys : RowBusy(key))
  /\ [][\A h \in Handlers :
          (ops'[h].pc = "mutating" /\ ops[h].pc # "mutating") =>
            /\ ~busyKeys[ops'[h].key]
            /\ \A g \in Handlers : ops[g].pc # "mutating"
            /\ \A g \in Handlers : C18_Running(ops[g]) => ops[g].key # ops'[h].key]_vars

C20_Witness ==
  /\ ops[1].pc = "refetchTry"
  /\ ops[2].pc = "mutating"
  /\ ops[1].key # ops[2].key
(***************************************************************************)
(* Claims about Checkout and OrderConfirmation (SpecCheckout)              *)
(***************************************************************************)
\* C21: the checkout mutation is never sent with an empty customer name, phone,
\* address line 1, city or country: the values sent, after trimming, are
\* non-empty for each of these fields, and a placeOrder on a form that lacks
\* one of them sends nothing and sets the error
C21_NoEmptyFieldSent ==
  /\ \A i \in 1..Len(checkoutInFlight) :
       LET input == checkoutInFlight[i]
       IN /\ trim(input.firstName \o input.lastName) # <<>>
          /\ trim(input.phone) # <<>>
          /\ trim(input.address1) # <<>>
          /\ trim(input.city) # <<>>
          /\ trim(input.country) # <<>>
  /\ lastCheckout.step = "invalid" =>
       /\ checkoutError = "Please complete your shipping details."
       /\ checkoutInFlight = <<>>

\* C22: at most one checkout mutation is in flight at any time, and a
\* placeOrder that runs while one is pending sends nothing
C22_OneCheckoutInFlight ==
  /\ [](Len(checkoutInFlight) <= 1)
  /\ [](checkoutInFlight # <<>> => checkingOut)
  /\ [][(checkingOut /\ lastCheckout'.step \in {"ignored", "invalid", "sent"}) =>
         (lastCheckout'.step = "ignored" /\ checkoutInFlight' = checkoutInFlight)]_vars

C22_Witness ==
  /\ lastCheckout.step = "ignored"
  /\ checkingOut
  /\ Len(checkoutInFlight) = 1

\* C23: after a checkout answered with an order, the confirmation page is opened
\* on that order's id, its order query is issued for that id, and 'Order not
\* found' is shown only after the query came back without an order, never
\* because the query was skipped
C23_ConfirmationQueriesOrder ==
  (route = "order-confirmation" /\ lastCheckout.step = "placed"
     /\ lastCheckout.created # NoOrder) =>
    /\ routeId # Undefined
    /\ orderQuery.state # "skipped"
    /\ orderQuery.id = routeId
    /\ OrderConfirmationView = "Order not found" => orderQuery.state = "notFound"

\* C24: once the database is reachable the script ends with the hand-off to the
\* original entrypoint, whether or not WordPress was installed and whether or not
\* a wp-config.php exists: it is not ended by `wp config create` failing on an
\* existing wp-config.php (it can still be ended by an unset WORDPRESS_DB_*
\* variable, or by a chown, a config create or a core install that fails for
\* another reason)
C24_HandsOffOnceDbReachable ==
  bootPc = "aborted" =>
    \/ ~bootEnv.dbVars
    \/ /\ bootLog[Len(bootLog)].cmd \in {"chown", "core install"}
       /\ ~bootLog[Len(bootLog)].ok
    \/ /\ bootLog[Len(bootLog)] = Ran("config create", "", FALSE)
       /\ ~bootFs.config
====
